---- MODULE Spec2Model ----
(***************************************************************************)
(* Model of the youspotter sync & download orchestrator:                   *)
(*   - youspotter/sync_lock.py     the single-flight sync lock             *)
(*   - youspotter/storage.py       the catalog table (tracks)              *)
(*   - youspotter/status.py        the persisted status document           *)
(*   - youspotter/sync_service.py  live queue, sync cycle, download worker *)
(* Time is the integer clock `now` (epoch seconds, int(time.time())).      *)
(***************************************************************************)
EXTENDS Integers, Sequences, FiniteSets, TLC

(* ------------------------------------------------------------------ *)
(* Bounds of the model                                                  *)
(* ------------------------------------------------------------------ *)
\* the clock starts at StartClock
StartClock == 300
\* the clock of the lock specifications advances in steps of LockTickSeconds,
\* up to MaxClockLock
LockTickSeconds == 900
MaxClockLock == 3900
\* the clock of the catalog specification advances in steps of CatalogTickSeconds,
\* up to MaxClockCatalog
CatalogTickSeconds == 300
MaxClockCatalog == 600
\* mark_download_failure is called on a row with fewer than MaxAttempts attempts
MaxAttempts == 6
\* the clock of the service specification advances in steps of ServiceTickSeconds,
\* up to MaxClockService
ServiceTickSeconds == 300
MaxClockService == 600
\* downloads the worker begins, over all runs of the process
MaxDownloads == 1
\* process restarts
MaxRestarts == 1
\* the clock of the scheduler specification stops here
MaxClockScheduler == 304
\* downloads the worker begins in the worker specification
MaxDownloadsWorker == 2

\* the absent value (Python None / SQL NULL) of a text field
None == "None"
\* the absent value (Python None / SQL NULL) of an integer field
NoInt == 0 - 1

(* ------------------------------------------------------------------ *)
(* Program constants                                                    *)
(* ------------------------------------------------------------------ *)
SYNC_TIMEOUT == 1800

\* threads that call run_once(): the scheduler loop and HTTP /sync-now handlers
Callers == {"scheduler", "manual1", "manual2"}
\* threads that call is_sync_running()
Checkers == {"probe"}

VARIABLES
    now,          \* time.time()
    \* ---- sync_lock.py module state
    lock_held,    \* _lock is locked
    busy,         \* _busy
    busy_since,   \* _busy_since
    \* ---- run_once() call frames, one per caller
    pc,           \* position of the caller inside run_once / sync_lock
    acquired,     \* the local `acquired` of sync_lock()
    ran,          \* the caller executed sync_spotify_tracks in this call
    result,       \* last value returned by run_once (None before the first return)
    \* ---- the scheduler thread of start_scheduler and the sync_now() callers
    half,         \* the half seconds of time.time() past `now`
    spc,          \* position of the scheduler thread inside loop()
    completed_at, \* the local `completed_at` of loop(), in half seconds
    next_run_at,  \* self.next_run_at, in seconds (NoInt for None)
    wake_at,      \* time at which the current _stop.wait(sleep_for) ends, in half seconds
    timer_reset,  \* _timer_reset is set
    snpc,         \* position of each sync_now() caller
    \* ---- is_sync_running() call frames
    cpc,          \* position of the checker inside is_sync_running
    \* ---- storage.py: the tracks table, keyed by identity
    tracks,       \* identity -> row, for the identities that have a row
    \* ---- the music directory
    files,        \* the paths at which os.path.isfile is true
    \* ---- history
    last_op,      \* the operation that produced the current state
    failures,     \* identity -> mark_download_failure calls since the row was
                  \* created or since its last mark_download_success
    \* ---- storage.py: kvstore
    catalog_version, \* the value of kvstore key "catalog_version" (NoInt: no row)
    \* ---- sync_service.py: SyncService._live_status
    live_pending,   \* _live_status["pending"], a sequence of identities
    live_current,   \* _live_status["current"], records [id, progress]
    live_completed, \* _live_status["completed"], records [id, status, timestamp]
    \* ---- status.py: _state["queue"], saved by _persist_save on every write
    status_queue,   \* [pending, current, completed]
    \* ---- sync_service.py: the download worker thread
    wpc,            \* position inside _download_worker_loop / _process_download_queue
    w_item,         \* item_to_process
    w_out,          \* [success, was_cancelled, downloaded_path, error_reason]
    future,         \* state of the Future of download_func, result when done
    future_ref,     \* _current_download_future is not None
    started_at,     \* time at which future.result(timeout=300) began to wait
    in_flight,      \* invocations of download_func started and not yet returned
    paused,         \* _paused
    last_reconcile, \* _last_reconcile
    \* ---- sync_service.py: the other threads
    recon,          \* the debounced reconcile thread of _schedule_reconcile
    pending_reconcile, \* _pending_reconcile, as _schedule_reconcile's statements see it
    sr_pc,          \* where each caller of _schedule_reconcile stands
    sr_run,         \* the run() threads started by _schedule_reconcile, by stage
    mt_posted,      \* use_strict_matching of the last POST /config
    mt_settings,    \* the settings table after save_config
    mt_candidate,   \* a candidate search_youtube returned
    mt_target,      \* the queue item the worker is processing
    mt_out,         \* what the worker's matcher said of the candidate
    lk_owner,       \* who holds SyncService._status_lock ("live") and status._lock ("status")
    lk_script,      \* the acquires and releases each thread still has to do in its call
    lk_held,        \* the locks each thread holds, in the order it took them
    ss_pc,          \* where each caller of start_scheduler / stop_scheduler stands
    ss_thread,      \* self._thread: the scheduler thread last created, or none
    ss_alive,       \* the scheduler threads that run loop()
    ss_stop,        \* self._stop
    ss_started,     \* scheduler threads created so far
    ss_worker,      \* the download worker thread: running its loop, or stopped
    ci_pc,          \* one fetched track on its way: fetched, stored in the catalog, marked
    ci_track,       \* the track as fetch_spotify_tracks returned it
    ci_row,         \* the row of the tracks table written for it
    ci_updated,     \* the identities of the rows the worker's mark call updated
    sr_unscanned,   \* history: a filesystem notification arrived and neither run() nor
                    \* the worker loop has started a disk scan since
    rc,             \* a reconcile_catalog call of the sync thread, between its SELECT and
                    \* its set_live_pending_queue
    \* ---- app.py: the process
    boot,           \* "loaded" after the start-up bootstrap, "running" after start-up
    restarts,       \* restarts so far
    \* ---- history
    downloads,      \* downloads the worker has begun
    pause_hit,      \* pause_downloads() ran while the download of w_item was in flight
    \* ---- queue.py: one DedupQueue object, exercised on its own
    dq_cap,         \* _cap
    dq_q,           \* _q, a sequence of tracks
    dq_seen,        \* _seen, a set of identity keys
    dq_ret,         \* the last call and the value it returned
    dq_enqueued,    \* history: the identity keys whose enqueue returned True
    \* ---- utils/path_template.py: one use of to_path_regex on a rendered path
    pt_tmpl,        \* the template, a sequence of placeholders and literal characters
    pt_fields,      \* the values of artist, album, title, ext
    pt_out          \* what re.compile(to_path_regex(tmpl)).match(path) gave

lockVars == <<lock_held, busy, busy_since, pc, acquired, ran, result, cpc>>
schedVars == <<half, spc, completed_at, next_run_at, wake_at, timer_reset, snpc>>
catalogVars == <<tracks, files, last_op, failures, catalog_version>>
catalogVars_data == <<tracks, files, failures, catalog_version>>
liveVars == <<live_pending, live_current, live_completed>>
workerVars == <<wpc, w_item, w_out, future, future_ref, started_at, pause_hit, in_flight>>
serviceVars == <<status_queue, paused, last_reconcile, recon, boot, restarts, downloads>>
queueVars == <<liveVars, workerVars, serviceVars>>
programVars == <<now, lockVars, schedVars, catalogVars, queueVars>>
dqVars == <<dq_cap, dq_q, dq_seen, dq_ret, dq_enqueued>>
ptVars == <<pt_tmpl, pt_fields, pt_out>>
rcVars == <<rc>>
srVars == <<pending_reconcile, sr_pc, sr_run, sr_unscanned>>
mtVars == <<mt_posted, mt_settings, mt_candidate, mt_target, mt_out>>
lkVars == <<lk_owner, lk_script, lk_held>>
ssVars == <<ss_pc, ss_thread, ss_alive, ss_stop, ss_started, ss_worker>>
ciVars == <<ci_pc, ci_track, ci_row, ci_updated>>
libVars == <<dqVars, ptVars, rcVars, srVars, mtVars, lkVars, ssVars, ciVars>>
vars == <<programVars, libVars>>

(* ------------------------------------------------------------------ *)
(* Clock                                                                *)
(* ------------------------------------------------------------------ *)
Tick(step, limit) ==
    /\ now + step <= limit
    /\ now' = now + step

\* time.time() is a float: the model keeps it in half seconds
HalvesPerSecond == 2

\* time.time(), in half seconds
time_time == HalvesPerSecond * now + half

\* time.time_ns(): a reading of the same clock, in the unit of the model's
\* clock; the clock returns one value until it ticks
time_ns == time_time

(* ------------------------------------------------------------------ *)
(* storage.py: the catalog                                              *)
(* ------------------------------------------------------------------ *)
\* identities of the tracks the playlists can hold
Ids == {"t1", "t2"}
\* paths a download can be written to
Paths == {"p1", "p2"}
\* error texts the worker passes to mark_download_failure
Errors == {"download failed"}

NoOp == [op |-> "init", id |-> None]

InitCatalog ==
    /\ tracks = <<>>
    /\ files = {}
    /\ last_op = NoOp
    /\ failures = [i \in Ids |-> 0]
    /\ catalog_version = NoInt

\* a row as INSERT creates it: the download-state columns are NULL
NewRow(t) ==
    [status |-> None, local_path |-> None, last_error |-> None,
     retry_after |-> NoInt, download_attempts |-> NoInt, last_seen |-> t]

\* an upsert written as INSERT OR REPLACE: a row of the batch is created anew
upsert_tracks_replace(tr, batch, t) ==
    [i \in (DOMAIN tr) \cup batch |-> IF i \in batch THEN NewRow(t) ELSE tr[i]]

\* an upsert whose ON CONFLICT clause also sets status = 'missing'
upsert_tracks_requeues(tr, batch, t) ==
    [i \in (DOMAIN tr) \cup batch |->
        IF i \in batch
        THEN IF i \in DOMAIN tr THEN [tr[i] EXCEPT !.last_seen = t, !.status = "missing"]
             ELSE NewRow(t)
        ELSE tr[i]]

\* DB.upsert_tracks: INSERT ... ON CONFLICT(identity) DO UPDATE SET ..., last_seen
upsert_tracks(tr, batch, t) ==
    [i \in (DOMAIN tr) \cup batch |->
        IF i \in batch
        THEN IF i \in DOMAIN tr THEN [tr[i] EXCEPT !.last_seen = t] ELSE NewRow(t)
        ELSE tr[i]]

\* DB.mark_download_success: UPDATE tracks SET ... WHERE identity=?
mark_download_success(tr, i, path, t) ==
    [j \in DOMAIN tr |->
        IF j = i
        THEN [tr[j] EXCEPT !.status = "downloaded", !.local_path = path,
                           !.last_error = None, !.retry_after = NoInt,
                           !.download_attempts = 0, !.last_seen = t]
        ELSE tr[j]]

RECURSIVE Pow3(_), RetryDelayDoubling(_)
\* 3 ** k
Pow3(k) == IF k <= 0 THEN 1 ELSE 3 * Pow3(k - 1)

Min(a, b) == IF a <= b THEN a ELSE b

\* base_delay and the cap of mark_download_failure
BASE_DELAY == 300
MAX_DELAY == 21600

\* (current[0] if current else 0) or 0
AttemptsOf(tr, i) ==
    IF i \in DOMAIN tr /\ tr[i].download_attempts # NoInt
    THEN tr[i].download_attempts ELSE 0

\* a backoff that doubles instead of tripling
RetryDelayDoubling(new_attempts) ==
    IF new_attempts <= 1 THEN BASE_DELAY
    ELSE Min(2 * RetryDelayDoubling(new_attempts - 1), MAX_DELAY)

\* delay = min(base_delay * (3 ** (new_attempts - 1)), 21600)
RetryDelay(new_attempts) == Min(BASE_DELAY * Pow3(new_attempts - 1), MAX_DELAY)

\* DB.mark_download_failure
mark_download_failure(tr, i, error, t) ==
    LET new_attempts == AttemptsOf(tr, i) + 1
        retry_after == t + RetryDelay(new_attempts)
    IN  [j \in DOMAIN tr |->
            IF j = i
            THEN [tr[j] EXCEPT !.status = "missing", !.last_error = error,
                               !.retry_after = retry_after,
                               !.download_attempts = new_attempts]
            ELSE tr[j]]

\* a reconciliation that compares the status column the way SQL would (NULL <> 'missing'
\* is not true), so rows that never had a status are skipped
ReconcileRowSkipsNull(row, fs, t) ==
    IF row.local_path # None /\ row.local_path \in fs /\ row.status # "downloaded"
    THEN [row EXCEPT !.status = "downloaded", !.last_error = None,
                     !.retry_after = NoInt, !.last_seen = t]
    ELSE IF ~(row.local_path # None /\ row.local_path \in fs)
            /\ row.status \notin {"missing", None}
    THEN [row EXCEPT !.status = "missing"]
    ELSE row

\* a reconciliation that books a vanished file as a failed download
ReconcileRowCountsFailure(row, fs, t) ==
    IF row.local_path # None /\ row.local_path \in fs /\ row.status # "downloaded"
    THEN [row EXCEPT !.status = "downloaded", !.last_error = None,
                     !.retry_after = NoInt, !.last_seen = t]
    ELSE IF ~(row.local_path # None /\ row.local_path \in fs) /\ row.status # "missing"
    THEN [row EXCEPT !.status = "missing", !.retry_after = t + BASE_DELAY,
                     !.download_attempts = IF @ = NoInt THEN 1 ELSE @ + 1]
    ELSE row

\* path_exists = bool(local_path and os.path.isfile(local_path))
PathExists(row, fs) == row.local_path # None /\ row.local_path \in fs

\* the row reconcile_catalog_paths leaves for `row`
ReconcileRow(row, fs, t) ==
    IF PathExists(row, fs) /\ row.status # "downloaded"
    THEN [row EXCEPT !.status = "downloaded", !.last_error = None,
                     !.retry_after = NoInt, !.last_seen = t]
    ELSE IF ~PathExists(row, fs) /\ row.status # "missing"
    THEN [row EXCEPT !.status = "missing"]
    ELSE row

\* DB.reconcile_catalog_paths
reconcile_catalog_paths(tr, fs, t) ==
    [i \in DOMAIN tr |-> ReconcileRow(tr[i], fs, t)]

(* ---- the DB API called on its own, against a changing music directory ---- *)
\* storage.py lines 142-165: upsert_tracks returns early on an empty batch,
\* otherwise it writes str(time.time_ns()) under "catalog_version"
upsert_catalog_version(version, batch) == IF batch = {} THEN version ELSE time_ns

db_upsert_tracks(batch) ==
    /\ UNCHANGED libVars
    /\ batch # {}
    /\ tracks' = upsert_tracks(tracks, batch, now)
    /\ catalog_version' = upsert_catalog_version(catalog_version, batch)
    /\ failures' = [i \in Ids |-> IF i \in batch \ DOMAIN tracks THEN 0 ELSE failures[i]]
    /\ last_op' = [op |-> "upsert_tracks", id |-> None]
    /\ UNCHANGED <<now, files, lockVars, schedVars, queueVars>>

db_mark_download_success(i, path) ==
    /\ UNCHANGED libVars
    /\ UNCHANGED catalog_version
    /\ tracks' = mark_download_success(tracks, i, path, now)
    /\ failures' = [failures EXCEPT ![i] = 0]
    /\ last_op' = [op |-> "mark_download_success", id |-> i]
    /\ UNCHANGED <<now, files, lockVars, schedVars, queueVars>>

db_mark_download_failure(i, error) ==
    /\ UNCHANGED libVars
    /\ UNCHANGED catalog_version
    /\ AttemptsOf(tracks, i) < MaxAttempts
    /\ tracks' = mark_download_failure(tracks, i, error, now)
    /\ failures' = [failures EXCEPT ![i] = IF i \in DOMAIN tracks THEN @ + 1 ELSE @]
    /\ last_op' = [op |-> "mark_download_failure", id |-> i]
    /\ UNCHANGED <<now, files, lockVars, schedVars, queueVars>>

db_reconcile_catalog_paths ==
    /\ UNCHANGED libVars
    /\ UNCHANGED catalog_version
    /\ tracks' = reconcile_catalog_paths(tracks, files, now)
    /\ last_op' = [op |-> "reconcile_catalog_paths", id |-> None]
    /\ UNCHANGED <<now, files, failures, lockVars, schedVars, queueVars>>

\* a file appears in the music directory (a download is written, a user copies one)
fs_create(path) ==
    /\ UNCHANGED libVars
    /\ UNCHANGED catalog_version
    /\ path \notin files
    /\ files' = files \cup {path}
    /\ last_op' = [op |-> "fs_create", id |-> None]
    /\ UNCHANGED <<now, tracks, failures, lockVars, schedVars, queueVars>>

\* a file is deleted from the music directory
fs_delete(path) ==
    /\ UNCHANGED libVars
    /\ UNCHANGED catalog_version
    /\ path \in files
    /\ files' = files \ {path}
    /\ last_op' = [op |-> "fs_delete", id |-> None]
    /\ UNCHANGED <<now, tracks, failures, lockVars, schedVars, queueVars>>

TickCatalog ==
    /\ UNCHANGED libVars
    /\ UNCHANGED catalog_version
    /\ Tick(CatalogTickSeconds, MaxClockCatalog)
    /\ last_op' = [op |-> "tick", id |-> None]
    /\ UNCHANGED <<tracks, files, failures, lockVars, schedVars, queueVars>>

(* ------------------------------------------------------------------ *)
(* sync_service.py: live queue, reconciliation, download worker         *)
(* ------------------------------------------------------------------ *)
\* download_timeout of _process_download_queue
DOWNLOAD_TIMEOUT == 300
\* _reconcile_interval
RECONCILE_INTERVAL == 10

\* the file the extractor writes for a track (host_path and path_template applied)
PathOf(i) == IF i = "t1" THEN "p1" ELSE "p2"

\* percents the extractor reports to progress_cb
Percents == {50}

NoOut == [success |-> FALSE, was_cancelled |-> FALSE, downloaded_path |-> None,
          error_reason |-> None]
\* last_op of the steps no property names
OtherOp == [op |-> "other", id |-> None]

InitService ==
    /\ live_pending = <<>>
    /\ live_current = <<>>
    /\ live_completed = <<>>
    /\ status_queue = [pending |-> <<>>, current |-> <<>>, completed |-> <<>>]
    /\ wpc = "idle"
    /\ w_item = None
    /\ w_out = NoOut
    /\ future = "none"
    /\ future_ref = FALSE
    /\ started_at = 0
    /\ paused = FALSE
    /\ last_reconcile = 0
    /\ recon = "clear"
    /\ boot = "running"
    /\ restarts = 0
    /\ downloads = 0
    /\ pause_hit = FALSE
    /\ in_flight = 0

\* the identities of a sequence of identities
Range(q) == {q[k] : k \in 1..Len(q)}
\* the identities of the items of current
CurrentIds == {live_current[k].id : k \in 1..Len(live_current)}

\* [p for p in seq if identity_key(p) != item_key]
RECURSIVE Without(_, _)
Without(q, i) ==
    IF q = <<>> THEN <<>>
    ELSE IF Head(q) = i THEN Without(Tail(q), i)
    ELSE <<Head(q)>> \o Without(Tail(q), i)

\* [c for c in current if identity_key(c) != item_key]
RECURSIVE WithoutItem(_, _)
WithoutItem(q, i) ==
    IF q = <<>> THEN <<>>
    ELSE IF Head(q).id = i THEN WithoutItem(Tail(q), i)
    ELSE <<Head(q)>> \o WithoutItem(Tail(q), i)

\* a selection that leaves the retry_after test out
EligibleAnyTime(tr, t) ==
    {i \in DOMAIN tr : tr[i].status = "missing"}

\* DB.select_tracks_for_queue: WHERE status='missing' AND (retry_after IS NULL OR
\* retry_after <= now)
Eligible(tr, t) ==
    {i \in DOMAIN tr : /\ tr[i].status = "missing"
                       /\ (tr[i].retry_after = NoInt \/ tr[i].retry_after <= t)}

\* DB.select_tracks_for_queue: ORDER BY last_seen ASC; rows with equal last_seen come
\* in an order SQL leaves open
select_tracks_for_queue(tr, t) ==
    LET S == Eligible(tr, t)
        n == Cardinality(S)
    IN  {q \in [1..n -> S] :
            /\ \A a, b \in 1..n : a < b => q[a] # q[b]
            /\ \A a, b \in 1..n : a < b => tr[q[a]].last_seen <= tr[q[b]].last_seen}

\* SyncService.reconcile_catalog: reconcile_catalog_paths, select_tracks_for_queue,
\* set_live_pending_queue, set_queue, _last_reconcile = now
reconcile_catalog_from(rows) ==
    LET tr == reconcile_catalog_paths(rows, files, now)
    IN  /\ tracks' = tr
        /\ \E q \in select_tracks_for_queue(tr, now) :
               /\ live_pending' = q
               /\ status_queue' = [status_queue EXCEPT !.pending = q]
        /\ last_reconcile' = now

\* a call without force returns at once within RECONCILE_INTERVAL of the last one
reconcile_catalog(force) ==
    IF ~force /\ now - last_reconcile < RECONCILE_INTERVAL
    THEN UNCHANGED <<tracks, live_pending, status_queue, last_reconcile>>
    ELSE reconcile_catalog_from(tracks)

\* SyncService._schedule_reconcile, called by the filesystem observer
schedule_reconcile(r) == IF r = "clear" THEN "scheduled" ELSE r

(* ---- sync cycle (run_once body) ---- *)
\* tracks fetch_spotify_tracks can return (after playlist expansion): two entries of
\* one recording, written differently and two seconds apart, and another recording
Queen354 == [artist |-> "Queen", title |-> "Song", duration |-> 354]
Queen352 == [artist |-> "queen", title |-> "Song!", duration |-> 352]
Abba200 == [artist |-> "Abba", title |-> "Song", duration |-> 200]

\* the answers of fetch_spotify_tracks: nothing, one track, both recordings, the same
\* recording twice, the same recording twice around the other one
FetchedLists ==
    {<<>>, <<Queen354>>, <<Abba200>>, <<Abba200, Queen352>>,
     <<Queen354, Queen352>>, <<Queen352, Abba200, Queen354>>}

\* utils.matching.normalize_text on the texts of RawTracks: lower case, punctuation
\* replaced by a blank, blanks collapsed and stripped
normalize_text(text) ==
    CASE text = "Queen" -> "queen"
      [] text = "queen" -> "queen"
      [] text = "Song" -> "song"
      [] text = "Song!" -> "song"
      [] text = "Abba" -> "abba"
      [] OTHER -> text

\* the key of the tracks table for an identity string f"{artist}|{title}|{dur}"
IdentityName(artist, title, dur) ==
    IF <<artist, title, dur>> = <<"queen", "song", 70>> THEN "t1" ELSE "t2"

\* an identity key built from the exact duration
identity_key_exact_duration(track) ==
    IdentityName(normalize_text(track.artist), normalize_text(track.title), track.duration)

\* queue.identity_key: normalised artist and title, duration in 5-second buckets
identity_key(track) ==
    IdentityName(normalize_text(track.artist), normalize_text(track.title),
                 track.duration \div 5)

\* sync_spotify_tracks lines 113-128: the first track of each identity is kept
RECURSIVE deduped_tracks(_, _)
deduped_tracks(fetched, seen_identities) ==
    IF fetched = <<>> THEN <<>>
    ELSE IF identity_key(Head(fetched)) \in seen_identities
    THEN deduped_tracks(Tail(fetched), seen_identities)
    ELSE <<Head(fetched)>>
         \o deduped_tracks(Tail(fetched), seen_identities \cup {identity_key(Head(fetched))})

\* lines 145-158: the identities of catalog_items
catalog_items(fetched) ==
    LET d == deduped_tracks(fetched, {}) IN {identity_key(d[k]) : k \in 1..Len(d)}

\* catalog_items for every answer of fetch_spotify_tracks
CatalogItemsOf == [fetched \in FetchedLists |-> catalog_items(fetched)]

\* sync_spotify_tracks: fetch, deduplicate, db.upsert_tracks(catalog_items),
\* reconcile_catalog(force=True)
sync_spotify_tracks(fetched) ==
    /\ UNCHANGED libVars
    /\ boot = "running"
    /\ LET batch == CatalogItemsOf[fetched]
           tr == IF batch = {} THEN tracks ELSE upsert_tracks(tracks, batch, now)
       IN  /\ reconcile_catalog_from(tr)
           /\ failures' = [i \in Ids |-> IF i \in batch \ DOMAIN tracks THEN 0
                                         ELSE failures[i]]
           /\ catalog_version' = upsert_catalog_version(catalog_version, batch)
    /\ last_op' = IF Len(fetched) > Cardinality(CatalogItemsOf[fetched])
                  THEN [op |-> "sync_deduplicated", id |-> None] ELSE OtherOp
    /\ UNCHANGED <<now, files, lockVars, schedVars, live_current, live_completed, workerVars,
                   paused, recon, boot, restarts, downloads>>

(* ---- queue.py: DedupQueue ---- *)
\* the cap argument of DedupQueue(cap)
DedupCaps == {0, 1, 2, 3}
\* the tracks offered to enqueue
DedupTracks == {Queen354, Queen352, Abba200}
NoTrack == [artist |-> None, title |-> None, duration |-> 0]
NoCall == [op |-> "none", arg |-> NoTrack, value |-> None]

\* no DedupQueue has been constructed
NoDedupQueue ==
    /\ dq_cap = NoInt
    /\ dq_q = <<>>
    /\ dq_seen = {}
    /\ dq_ret = NoCall
    /\ dq_enqueued = {}

(* ---- utils/path_template.py and utils/matching.py on character sequences ---- *)
ALLOWED_VARS == {"artist", "album", "title", "ext"}
Var(name) == [kind |-> "var", v |-> name]
Lit(char) == [kind |-> "lit", v |-> char]

\* "{artist}/{title}.{ext}", "{artist}-{title}.{ext}" and, with a placeholder
\* used twice as in the default layout, "{artist}/{artist}-{title}.{ext}"
Templates ==
    {<<Var("artist"), Lit("/"), Var("title"), Lit("."), Var("ext")>>,
     <<Var("artist"), Lit("-"), Var("title"), Lit("."), Var("ext")>>,
     <<Var("artist"), Lit("/"), Var("artist"), Lit("-"), Var("title"), Lit("."),
       Var("ext")>>}

\* field values free of path separators
FieldTexts == {<<"a">>, <<"b">>, <<"a", ".", "b">>, <<"a", "-", "b">>}
AlbumTexts == {<<"a">>, <<"b">>}
ExtTexts == {<<"m">>}
FieldValues ==
    {f \in [ALLOWED_VARS -> FieldTexts \cup ExtTexts] :
        /\ f["artist"] \in FieldTexts /\ f["title"] \in FieldTexts
        /\ f["album"] \in AlbumTexts /\ f["ext"] \in ExtTexts}

\* validate_user_template: relative, no "..", only allowed placeholders, {ext} present
validate_user_template(tmpl) ==
    /\ tmpl # <<>> /\ Head(tmpl) # Lit("/")
    /\ \A k \in 1..(Len(tmpl) - 1) : ~(tmpl[k] = Lit(".") /\ tmpl[k + 1] = Lit("."))
    /\ \A k \in 1..Len(tmpl) : tmpl[k].kind = "var" => tmpl[k].v \in ALLOWED_VARS
    /\ \E k \in 1..Len(tmpl) : tmpl[k] = Var("ext")

\* the path a template renders for the fields
RECURSIVE render(_, _)
render(tmpl, fields) ==
    IF tmpl = <<>> THEN <<>>
    ELSE (IF Head(tmpl).kind = "var" THEN fields[Head(tmpl).v] ELSE <<Head(tmpl).v>>)
         \o render(Tail(tmpl), fields)

\* to_path_regex: each literal escaped, each placeholder a named group,
\* (?P<name>.+?) and for ext (?P<ext>[^/]+), between ^ and $
to_path_regex(tmpl) ==
    [k \in 1..Len(tmpl) |->
        IF tmpl[k].kind = "var"
        THEN [kind |-> "group", v |-> tmpl[k].v, lazy |-> tmpl[k].v # "ext"]
        ELSE [kind |-> "lit", v |-> tmpl[k].v, lazy |-> FALSE]]

\* re.compile raises re.error (redefinition of group name) for a regex that
\* names two groups alike
re_compile_error(rx) ==
    \E a, b \in 1..Len(rx) :
        a < b /\ rx[a].kind = "group" /\ rx[b].kind = "group" /\ rx[a].v = rx[b].v

NoGroups == [name \in ALLOWED_VARS |-> <<>>]
NoMatch == [status |-> "nomatch", groups |-> NoGroups]

\* the characters a group accepts: any for .+?, any but "/" for [^/]+
Accepts(item, text) == item.lazy \/ \A k \in 1..Len(text) : text[k] # "/"

\* pattern.match with backtracking: a lazy group tries the shortest text
\* first, the greedy ext group the longest
RECURSIVE re_match(_, _, _)
RECURSIVE re_match_group(_, _, _, _)
re_match(rx, text, groups) ==
    IF rx = <<>>
    THEN IF text = <<>> THEN [status |-> "match", groups |-> groups] ELSE NoMatch
    ELSE IF Head(rx).kind = "lit"
    THEN IF text # <<>> /\ Head(text) = Head(rx).v
         THEN re_match(Tail(rx), Tail(text), groups) ELSE NoMatch
    ELSE re_match_group(rx, text, groups, IF Head(rx).lazy THEN 1 ELSE Len(text))

re_match_group(rx, text, groups, n) ==
    IF n < 1 \/ n > Len(text) THEN NoMatch
    ELSE LET taken == SubSeq(text, 1, n)
             rest == IF Accepts(Head(rx), taken)
                     THEN re_match(Tail(rx), SubSeq(text, n + 1, Len(text)),
                                   [groups EXCEPT ![Head(rx).v] = taken])
                     ELSE NoMatch
         IN  IF rest.status = "match" THEN rest
             ELSE re_match_group(rx, text, groups, IF Head(rx).lazy THEN n + 1 ELSE n - 1)

\* re.compile(to_path_regex(tmpl)).match(path).groupdict()
match_path(tmpl, path) ==
    IF re_compile_error(to_path_regex(tmpl))
    THEN [status |-> "re.error", groups |-> NoGroups]
    ELSE re_match(to_path_regex(tmpl), path, NoGroups)

\* utils.matching.normalize_text on characters: what is not a-z, 0-9 or white
\* space becomes a blank, blanks are collapsed and stripped
RECURSIVE collapse_blanks(_, _)
collapse_blanks(text, after_blank) ==
    IF text = <<>> THEN <<>>
    ELSE IF Head(text) = " "
    THEN IF after_blank \/ \A k \in 1..Len(text) : text[k] = " "
         THEN collapse_blanks(Tail(text), TRUE)
         ELSE <<" ">> \o collapse_blanks(Tail(text), TRUE)
    ELSE <<Head(text)>> \o collapse_blanks(Tail(text), FALSE)

normalize_chars(text) ==
    collapse_blanks([k \in 1..Len(text) |->
                        IF text[k] \in {"a", "b", "m", " "} THEN text[k] ELSE " "], TRUE)

NoPathOut == [status |-> "none", groups |-> NoGroups]

\* no template is in use
NoPathTemplate ==
    /\ pt_tmpl = <<>>
    /\ pt_fields = NoGroups
    /\ pt_out = NoPathOut

\* the path rendered from the template is matched against the template's regex
match_rendered_path ==
    /\ pt_out = NoPathOut
    /\ pt_out' = match_path(pt_tmpl, render(pt_tmpl, pt_fields))
    /\ UNCHANGED <<pt_tmpl, pt_fields, dqVars, rcVars, srVars, mtVars, lkVars, ssVars, ciVars, programVars>>

\* no reconcile_catalog call of the sync thread is under way
NoReconcile == [pc |-> "idle", pending |-> <<>>, at |-> 0]
NoReconcileInFlight == rc = NoReconcile

\* the threads that call _schedule_reconcile: the filesystem observer
\* (CatalogHandler.on_any_event) and an HTTP thread in notify_config_updated
ReconcileCallers == {"observer", "config"}
\* calls and run() threads of _schedule_reconcile under way at once
MaxDebounced == 2

\* SyncService.__init__ line 61: self._pending_reconcile = threading.Event()
InitScheduleReconcile ==
    /\ pending_reconcile = FALSE
    /\ sr_pc = [c \in ReconcileCallers |-> "idle"]
    /\ sr_run = [stage \in {"sleep", "clear"} |-> 0]
    /\ sr_unscanned = FALSE

(* ---- config.py and utils/matching.py: the matcher the worker applies ---- *)
\* the keys save_config writes and load_config reads (config.py lines 7-29)
SavedKeys == {"host_path", "bitrate", "format", "concurrency", "spotify_client_id",
              "path_template", "yt_cookie"}

\* the settings table before any POST /config
NoSettings == [k \in SavedKeys |-> ""]

\* __init__.py lines 268-277: the cfg dict set_config builds from the request
posted_cfg(strict) ==
    [k \in SavedKeys \cup {"use_strict_matching"} |->
        IF k = "use_strict_matching" THEN (IF strict THEN "True" ELSE "False") ELSE "x"]

\* config.save_config: db.set_setting for each of its keys
save_config(cfg) == [k \in SavedKeys |-> cfg[k]]

\* config.load_config: a dict of the same keys read back
load_config(settings) == [k \in SavedKeys |-> settings[k]]

\* sync_service.py line 461: cfg.get('use_strict_matching', False)
cfg_use_strict(cfg) ==
    IF "use_strict_matching" \in DOMAIN cfg THEN cfg["use_strict_matching"] = "True"
    ELSE FALSE

\* texts, as sequences of characters, and durations of candidates and targets
MatchArtists == {<<"a", "b", "b", "a">>, <<"a", "b", "b", "a", ".">>, <<"a", "m", "b", "a">>}
MatchTitles ==
    {<<"b", "a", "m", "b", "a", "m">>, <<"b", "a", "m", "-", "b", "a", "m">>,
     <<"m", "a", "m", "a">>}
MatchDurations == {200, 205, 206, 210, 211}
TargetTrack == [artist |-> <<"a", "b", "b", "a">>, title |-> <<"b", "a", "m", "b", "a", "m">>,
                duration |-> 200]

Abs(x) == IF x < 0 THEN 0 - x ELSE x
Max(a, b) == IF a >= b THEN a ELSE b

\* duration_within_tolerance
duration_within_tolerance(target_seconds, candidate_seconds, tolerance) ==
    Abs(target_seconds - candidate_seconds) <= tolerance

\* levenshtein_distance of the prefixes s[1..i] and t[1..j]
RECURSIVE levenshtein_prefix(_, _, _, _)
levenshtein_prefix(s, t, i, j) ==
    IF i = 0 THEN j
    ELSE IF j = 0 THEN i
    ELSE Min(Min(levenshtein_prefix(s, t, i - 1, j) + 1, levenshtein_prefix(s, t, i, j - 1) + 1),
             levenshtein_prefix(s, t, i - 1, j - 1) + (IF s[i] = t[j] THEN 0 ELSE 1))

levenshtein_distance(s, t) == levenshtein_prefix(s, t, Len(s), Len(t))

\* string_similarity(s1, s2) >= percent / 100, for 1.0 - distance / max_len
similarity_at_least(s, t, percent) ==
    IF s = <<>> /\ t = <<>> THEN TRUE
    ELSE IF s = <<>> \/ t = <<>> THEN FALSE
    ELSE 100 * (Max(Len(s), Len(t)) - levenshtein_distance(s, t))
            >= percent * Max(Len(s), Len(t))

\* song_match_strict
song_match_strict(candidate, target, duration_tolerance) ==
    IF normalize_chars(candidate.artist) # normalize_chars(target.artist)
       \/ normalize_chars(candidate.title) # normalize_chars(target.title)
    THEN FALSE
    ELSE duration_within_tolerance(target.duration, candidate.duration, duration_tolerance)

\* song_match_fuzzy with its defaults title_threshold = 0.8, artist_threshold = 0.7,
\* duration_tolerance = 10; line 66 hands its own duration_tolerance to song_match_strict
song_match_fuzzy(candidate, target, use_strict) ==
    IF use_strict THEN song_match_strict(candidate, target, 10)
    ELSE IF ~similarity_at_least(normalize_chars(candidate.title),
                                 normalize_chars(target.title), 80) THEN FALSE
    ELSE IF ~similarity_at_least(normalize_chars(candidate.artist),
                                 normalize_chars(target.artist), 70) THEN FALSE
    ELSE duration_within_tolerance(target.duration, candidate.duration, 10)

\* no configuration has been posted and no candidate is being matched
NoMatching ==
    /\ mt_posted = FALSE
    /\ mt_settings = NoSettings
    /\ mt_candidate = TargetTrack
    /\ mt_target = TargetTrack
    /\ mt_out = "none"

\* POST /config (__init__.py set_config lines 268-278): save_config(db, cfg)
set_config(strict) ==
    /\ mt_posted' = strict
    /\ mt_settings' = save_config(posted_cfg(strict))
    /\ mt_out' = "none"
    /\ UNCHANGED <<mt_candidate, mt_target, dqVars, ptVars, rcVars, srVars, lkVars, ssVars, ciVars, programVars>>

\* _process_download_queue lines 424-426 and 460-470: cfg = load_config(self.db);
\* use_strict = cfg.get('use_strict_matching', False); song_match_fuzzy(c, item, use_strict)
worker_match ==
    /\ mt_out = "none"
    /\ LET cfg == load_config(mt_settings)
       IN  mt_out' = IF song_match_fuzzy(mt_candidate, mt_target, cfg_use_strict(cfg))
                     THEN "picked" ELSE "rejected"
    /\ UNCHANGED <<mt_posted, mt_settings, mt_candidate, mt_target, dqVars, ptVars, rcVars,
                   srVars, lkVars, ssVars, ciVars, programVars>>

(* ---- the live-queue lock and the status lock ---- *)
\* sync_service.py line 42 self._status_lock ("live"); status.py line 5 _lock ("status")
Locks == {"live", "status"}
\* the download worker, the executor thread that runs the progress callback, the
\* sync cycle and debounced reconcile, and an HTTP handler
LockThreads == {"worker", "progress", "sync", "http"}

Acquire(l) == [op |-> "acquire", lock |-> l]
Release(l) == [op |-> "release", lock |-> l]

\* with self._status_lock: ... (get_live_queue_status, set_live_pending_queue,
\* live_move_to_current, live_update_progress, live_complete_item)
live_locking == <<Acquire("live"), Release("live")>>

\* with _lock: ... (status.get_status, set_status, set_totals, add_recent, set_queue,
\* queue_update_progress, reset_false_completions); _persist_save takes neither lock
status_locking == <<Acquire("status"), Release("status")>>

\* sync_to_persistent_queue lines 733-741: set_queue is called inside
\* with self._status_lock
sync_to_persistent_queue_locking ==
    <<Acquire("live"), Acquire("status"), Release("status"), Release("live")>>

\* progress_callback lines 493-495: live_update_progress, then queue_update_progress
progress_callback_locking == live_locking \o status_locking

\* a reconcile_catalog that sets the live pending queue inside the status lock
reconcile_catalog_nested ==
    status_locking \o status_locking
        \o <<Acquire("status"), Acquire("live"), Release("live"), Release("status")>>

\* reconcile_catalog lines 195-214: set_totals, set_status, set_live_pending_queue,
\* set_queue
reconcile_catalog_locking ==
    status_locking \o status_locking \o live_locking \o status_locking

\* _load_persistent_into_live lines 753-757: get_status(), then with self._status_lock
load_persistent_into_live_locking == status_locking \o live_locking

\* the calls each thread makes
LockCalls(t) ==
    CASE t = "worker" -> {reconcile_catalog_locking, live_locking, status_locking,
                          sync_to_persistent_queue_locking}
      [] t = "progress" -> {progress_callback_locking}
      [] t = "sync" -> {reconcile_catalog_locking, status_locking, live_locking}
      [] t = "http" -> {live_locking, status_locking, load_persistent_into_live_locking}

\* SyncService.__init__ line 42 and status.py line 5: both locks free
InitLocks ==
    /\ lk_owner = [l \in Locks |-> None]
    /\ lk_script = [t \in LockThreads |-> <<>>]
    /\ lk_held = [t \in LockThreads |-> <<>>]

\* thread t enters one of its calls
lock_call(t) ==
    /\ lk_script[t] = <<>>
    /\ \E script \in LockCalls(t) : lk_script' = [lk_script EXCEPT ![t] = script]
    /\ UNCHANGED <<lk_owner, lk_held, dqVars, ptVars, rcVars, srVars, mtVars, ssVars, ciVars, programVars>>

\* threading.Lock.acquire(): blocks until the lock is free, also for its own holder
lock_acquire(t) ==
    /\ lk_script[t] # <<>> /\ Head(lk_script[t]).op = "acquire"
    /\ LET l == Head(lk_script[t]).lock
       IN  /\ lk_owner[l] = None
           /\ lk_owner' = [lk_owner EXCEPT ![l] = t]
           /\ lk_held' = [lk_held EXCEPT ![t] = Append(@, l)]
    /\ lk_script' = [lk_script EXCEPT ![t] = Tail(@)]
    /\ UNCHANGED <<dqVars, ptVars, rcVars, srVars, mtVars, ssVars, ciVars, programVars>>

\* threading.Lock.release() at the end of the with block
lock_release(t) ==
    /\ lk_script[t] # <<>> /\ Head(lk_script[t]).op = "release"
    /\ LET l == Head(lk_script[t]).lock
       IN  /\ lk_owner' = [lk_owner EXCEPT ![l] = None]
           /\ lk_held' = [lk_held EXCEPT ![t] = SelectSeq(@, LAMBDA h : h # l)]
    /\ lk_script' = [lk_script EXCEPT ![t] = Tail(@)]
    /\ UNCHANGED <<dqVars, ptVars, rcVars, srVars, mtVars, ssVars, ciVars, programVars>>

(* ---- start_scheduler and stop_scheduler, statement by statement ---- *)
\* the threads that call start_scheduler (POST /config, POST /playlists, start-up of
\* app.py) and one that calls stop_scheduler
SchedulerStarters == {"config", "playlists", "startup"}
SchedulerStoppers == {"stopper"}
\* scheduler threads created in one behaviour
MaxSchedulerThreads == 3

\* SyncService.__init__ lines 34-37: _stop clear, _thread None
InitStartScheduler ==
    /\ ss_pc = [c \in SchedulerStarters \cup SchedulerStoppers |-> "idle"]
    /\ ss_thread = NoInt
    /\ ss_alive = {}
    /\ ss_stop = FALSE
    /\ ss_started = 0
    /\ ss_worker = "running"

\* what start_scheduler, stop_scheduler and the scheduler threads leave alone here
ssOthers == <<dqVars, ptVars, rcVars, srVars, mtVars, lkVars, ciVars, programVars>>

\* start_scheduler is entered
start_scheduler_call(c) ==
    /\ ss_pc[c] = "idle" /\ ss_started < MaxSchedulerThreads
    /\ ss_pc' = [ss_pc EXCEPT ![c] = "test"]
    /\ UNCHANGED <<ss_thread, ss_alive, ss_stop, ss_started>>
    /\ UNCHANGED <<ss_worker, ssOthers>>

\* lines 566-567: if self._thread and self._thread.is_alive(): return
start_scheduler_test(c) ==
    /\ ss_pc[c] = "test"
    /\ ss_pc' = [ss_pc EXCEPT ![c] = IF ss_thread \in ss_alive THEN "idle" ELSE "clear"]
    /\ UNCHANGED <<ss_thread, ss_alive, ss_stop, ss_started>>
    /\ UNCHANGED <<ss_worker, ssOthers>>

\* line 601: self._stop.clear()
start_scheduler_clear(c) ==
    /\ ss_pc[c] = "clear"
    /\ ss_stop' = FALSE
    /\ ss_pc' = [ss_pc EXCEPT ![c] = "start"]
    /\ UNCHANGED <<ss_thread, ss_alive, ss_started>>
    /\ UNCHANGED <<ss_worker, ssOthers>>

\* lines 604-605: self._thread = threading.Thread(target=loop, daemon=True);
\* self._thread.start()
start_scheduler_start(c) ==
    /\ ss_pc[c] = "start"
    /\ ss_started' = ss_started + 1
    /\ ss_thread' = ss_started + 1
    /\ ss_alive' = ss_alive \cup {ss_started + 1}
    /\ ss_pc' = [ss_pc EXCEPT ![c] = "idle"]
    /\ UNCHANGED ss_stop
    /\ UNCHANGED <<ss_worker, ssOthers>>

\* stop_scheduler line 608: self._stop.set()
stop_scheduler_set(c) ==
    /\ ss_pc[c] = "idle"
    /\ ss_stop' = TRUE
    /\ ss_pc' = [ss_pc EXCEPT ![c] = "join"]
    /\ UNCHANGED <<ss_thread, ss_alive, ss_started>>
    /\ UNCHANGED <<ss_worker, ssOthers>>

\* stop_scheduler lines 609-610: self._thread.join(timeout=1.0) returns, whether
\* the thread has ended or not
stop_scheduler_join(c) ==
    /\ ss_pc[c] = "join"
    /\ ss_pc' = [ss_pc EXCEPT ![c] = "idle"]
    /\ UNCHANGED <<ss_thread, ss_alive, ss_stop, ss_started>>
    /\ UNCHANGED <<ss_worker, ssOthers>>

\* loop() lines 570 and 582: a scheduler thread finds _stop set and ends
scheduler_loop_exit(th) ==
    /\ th \in ss_alive /\ ss_stop
    /\ ss_alive' = ss_alive \ {th}
    /\ UNCHANGED <<ss_pc, ss_thread, ss_stop, ss_started>>
    /\ UNCHANGED <<ss_worker, ssOthers>>

\* _download_worker_loop lines 354 and 363: the worker thread, started by app.py
\* line 132, finds the same event _stop set and leaves its loop; while _stop is
\* clear an iteration changes nothing here
download_worker_loop_exit ==
    /\ ss_worker = "running" /\ ss_stop
    /\ ss_worker' = "stopped"
    /\ UNCHANGED <<ss_pc, ss_thread, ss_alive, ss_stop, ss_started>>
    /\ UNCHANGED ssOthers

(* ---- one fetched track from sync_spotify_tracks to the worker's mark call ---- *)
\* texts are sequences of characters: artist names and titles Spotify can return,
\* among them none at all (a track without artists) and blanks only
CatalogArtists == {<<>>, <<" ">>, <<"a">>, <<"A">>, <<"a", "!">>, <<" ", "a">>}
CatalogTitles == {<<>>, <<"b">>, <<"b", " ">>, <<"!">>}
CatalogDurations == {0, 203, 205}
Unknown == <<"U", "n", "k", "n", "o", "w", "n">>

\* str.lower on the characters in use
lower(ch) == CASE ch = "A" -> "a" [] ch = "U" -> "u" [] OTHER -> ch

\* the characters of [a-z0-9] in use
AlnumChars == {"a", "b", "k", "n", "o", "u", "w"}

\* utils.matching.normalize_text with lower-casing: lower case, what is not a-z, 0-9
\* or white space becomes a blank, blanks are collapsed and stripped
normalize_text_lower(text) ==
    collapse_blanks([k \in 1..Len(text) |->
                        IF lower(text[k]) \in AlnumChars THEN lower(text[k]) ELSE " "], TRUE)

\* str.strip
strip(text) ==
    LET inked == {k \in 1..Len(text) : text[k] # " "}
    IN  IF inked = {} THEN <<>>
        ELSE SubSeq(text, CHOOSE k \in inked : \A j \in inked : k <= j,
                          CHOOSE k \in inked : \A j \in inked : k >= j)

\* queue.identity_key on character texts; the string f"{artist}|{title}|{dur}" is the
\* triple of its parts (a normalised text holds no bar)
identity_key_chars(track) ==
    <<normalize_text_lower(track.artist), normalize_text_lower(track.title), track.duration \div 5>>

\* sync_spotify_tracks lines 143-158: one entry of catalog_items
catalog_item(track) ==
    [identity |-> identity_key_chars(track),
     artist |-> IF strip(track.artist) = <<>> THEN Unknown ELSE strip(track.artist),
     title |-> IF strip(track.title) = <<>> THEN Unknown ELSE strip(track.title),
     duration |-> track.duration]

\* TrackDB.upsert_tracks lines 119-140: the row written for one entry
upsert_row(item) ==
    [identity |-> item.identity,
     artist |-> strip(IF item.artist = <<>> THEN Unknown ELSE item.artist),
     title |-> strip(IF item.title = <<>> THEN Unknown ELSE item.title),
     duration |-> item.duration]

\* select_tracks_for_queue lines 246-255: the queue item made of a row
queue_item(row) == [artist |-> row.artist, title |-> row.title, duration |-> row.duration]

NoCatalogRow == [identity |-> <<>>, artist |-> <<>>, title |-> <<>>, duration |-> 0]

NoCatalogItem ==
    /\ ci_pc = "none"
    /\ ci_track = [artist |-> <<>>, title |-> <<>>, duration |-> 0]
    /\ ci_row = NoCatalogRow
    /\ ci_updated = {}

ciOthers == <<dqVars, ptVars, rcVars, srVars, mtVars, lkVars, ssVars, programVars>>

\* the sync cycle writes the row of the fetched track
sync_writes_row ==
    /\ ci_pc = "fetched"
    /\ ci_row' = upsert_row(catalog_item(ci_track))
    /\ ci_pc' = "stored"
    /\ UNCHANGED <<ci_track, ci_updated, ciOthers>>

\* _process_download_queue lines 534-544: mark_download_success / mark_download_failure
\* with identity_key(item_to_process); UPDATE tracks ... WHERE identity=?
worker_marks_row ==
    /\ ci_pc = "stored"
    /\ ci_updated' = {ci_row.identity} \cap {identity_key_chars(queue_item(ci_row))}
    /\ ci_pc' = "marked"
    /\ UNCHANGED <<ci_track, ci_row, ciOthers>>

\* the library objects, and the calls taken statement by statement, that the
\* program's other specifications leave alone
InitLib ==
    /\ NoDedupQueue /\ NoPathTemplate /\ NoReconcileInFlight /\ InitScheduleReconcile
    /\ NoMatching /\ InitLocks /\ InitStartScheduler /\ NoCatalogItem

\* DedupQueue.__init__
InitDedupQueue(cap) ==
    /\ dq_cap = cap
    /\ dq_q = <<>>
    /\ dq_seen = {}
    /\ dq_ret = NoCall
    /\ dq_enqueued = {}

\* an enqueue that looks for the key among the queued tracks only
enqueue_refuses_queued_only(key, q, seen, cap) ==
    \/ \E k \in 1..Len(q) : identity_key(q[k]) = key
    \/ Len(q) >= cap

\* DedupQueue.enqueue lines 23-26: the two early returns
enqueue_refuses(key, q, seen, cap) ==
    \/ key \in seen
    \/ Len(q) >= cap

\* DedupQueue.enqueue
enqueue(track) ==
    LET key == identity_key(track)
    IN  /\ IF enqueue_refuses(key, dq_q, dq_seen, dq_cap)
           THEN /\ dq_ret' = [op |-> "enqueue", arg |-> track, value |-> "False"]
                /\ UNCHANGED <<dq_q, dq_seen, dq_enqueued>>
           ELSE /\ dq_q' = Append(dq_q, track)
                /\ dq_seen' = dq_seen \cup {key}
                /\ dq_enqueued' = dq_enqueued \cup {key}
                /\ dq_ret' = [op |-> "enqueue", arg |-> track, value |-> "True"]
        /\ UNCHANGED <<dq_cap, ptVars, rcVars, srVars, mtVars, lkVars, ssVars, ciVars, programVars>>

\* DedupQueue.dequeue: the key of the item stays in _seen
dequeue ==
    /\ IF dq_q = <<>>
       THEN /\ dq_ret' = [op |-> "dequeue", arg |-> NoTrack, value |-> None]
            /\ UNCHANGED dq_q
       ELSE /\ dq_ret' = [op |-> "dequeue", arg |-> NoTrack, value |-> identity_key(Head(dq_q))]
            /\ dq_q' = Tail(dq_q)
    /\ UNCHANGED <<dq_cap, dq_seen, dq_enqueued, ptVars, rcVars, srVars, mtVars, lkVars, ssVars, ciVars, programVars>>


(* ---- filesystem observer and debounced reconcile ---- *)
\* a file of the music directory is created or deleted by someone else;
\* CatalogHandler.on_any_event calls _schedule_reconcile
watched_fs_change(path) ==
    /\ UNCHANGED libVars
    /\ UNCHANGED catalog_version
    /\ boot = "running"
    /\ files' = IF path \in files THEN files \ {path} ELSE files \cup {path}
    /\ recon' = schedule_reconcile(recon)
    /\ last_op' = OtherOp
    /\ UNCHANGED <<now, tracks, failures, lockVars, schedVars, liveVars, workerVars, status_queue,
                   paused, last_reconcile, boot, restarts, downloads>>

\* _schedule_reconcile.run: time.sleep(1); self.reconcile_catalog(force=True)
debounced_reconcile ==
    /\ UNCHANGED libVars
    /\ UNCHANGED catalog_version
    /\ boot = "running" /\ recon = "scheduled"
    /\ reconcile_catalog(TRUE)
    /\ recon' = "ran"
    /\ last_op' = OtherOp
    /\ UNCHANGED <<now, files, failures, lockVars, schedVars, live_current, live_completed,
                   workerVars, paused, boot, restarts, downloads>>

\* _schedule_reconcile.run: finally: self._pending_reconcile.clear()
debounced_clear ==
    /\ UNCHANGED libVars
    /\ UNCHANGED catalog_version
    /\ boot = "running" /\ recon = "ran"
    /\ recon' = "clear"
    /\ last_op' = OtherOp
    /\ UNCHANGED <<now, tracks, files, failures, lockVars, schedVars, liveVars, workerVars,
                   status_queue, paused, last_reconcile, boot, restarts, downloads>>

\* app.py line 98: SyncService(..., concurrency_cap=1)
concurrency_cap == 1

(* ---- pause / resume ---- *)
\* Future.cancel(): only a future that has not started can be cancelled
Cancel(f) == IF f = "pending" THEN "cancelled" ELSE f

\* SyncService.pause_downloads
pause_downloads ==
    /\ UNCHANGED libVars
    /\ boot = "running" /\ ~paused
    /\ paused' = TRUE
    /\ future' = IF future_ref THEN Cancel(future) ELSE future
    /\ pause_hit' = (pause_hit \/ (future_ref /\ future \in {"pending", "running"}))
    /\ UNCHANGED in_flight
    /\ last_op' = OtherOp
    /\ UNCHANGED <<now, catalogVars_data, lockVars, schedVars, liveVars, wpc, w_item, w_out,
                   future_ref, started_at, status_queue, last_reconcile, recon,
                   boot, restarts, downloads>>

\* SyncService.resume_downloads
resume_downloads ==
    /\ UNCHANGED libVars
    /\ boot = "running" /\ paused
    /\ paused' = FALSE
    /\ last_op' = OtherOp
    /\ UNCHANGED <<now, catalogVars_data, lockVars, schedVars, liveVars, workerVars, status_queue,
                   last_reconcile, recon, boot, restarts, downloads>>

(* ---- download worker ---- *)
\* _download_worker_loop with _paused clear calls _process_download_queue, lines 389-412: reconcile_catalog(); read the live queue;
\* return when current is non-empty or pending is empty; item_to_process = pending[0]
worker_begin_upto(limit) ==
    /\ UNCHANGED libVars
    /\ UNCHANGED catalog_version
    /\ boot = "running" /\ wpc = "idle" /\ ~paused
    /\ downloads < limit
    /\ reconcile_catalog(FALSE)
    /\ IF live_current # <<>> \/ live_pending' = <<>>
       THEN wpc' = "idle" /\ UNCHANGED <<w_item, w_out, downloads>>
       ELSE /\ wpc' = "move"
            /\ w_item' = Head(live_pending')
            /\ w_out' = NoOut
            /\ downloads' = downloads + 1
    /\ UNCHANGED in_flight
    /\ last_op' = OtherOp
    /\ UNCHANGED <<now, files, failures, lockVars, schedVars, live_current, live_completed, future,
                   future_ref, started_at, pause_hit, paused, recon, boot, restarts>>

worker_begin == worker_begin_upto(MaxDownloads)

\* the same lines 389-412 with the downloads begun left uncounted, for behaviours
\* in which the worker goes on for ever
worker_begin_uncounted ==
    /\ UNCHANGED libVars
    /\ UNCHANGED catalog_version
    /\ boot = "running" /\ wpc = "idle" /\ ~paused
    /\ reconcile_catalog(FALSE)
    /\ IF live_current # <<>> \/ live_pending' = <<>>
       THEN wpc' = "idle" /\ UNCHANGED <<w_item, w_out>>
       ELSE /\ wpc' = "move"
            /\ w_item' = Head(live_pending')
            /\ w_out' = NoOut
    /\ UNCHANGED in_flight
    /\ last_op' = OtherOp
    /\ UNCHANGED <<now, files, failures, lockVars, schedVars, live_current, live_completed, future,
                   future_ref, started_at, pause_hit, paused, recon, boot, restarts, downloads>>

\* SyncService.live_move_to_current
live_move_to_current(i) ==
    /\ live_current' = Append(live_current, [id |-> i, progress |-> 0])
    /\ live_pending' = Without(live_pending, i)

\* _process_download_queue lines 435-444
worker_move ==
    /\ UNCHANGED libVars
    /\ boot = "running" /\ wpc = "move"
    /\ live_move_to_current(w_item)
    /\ wpc' = "search"
    /\ UNCHANGED in_flight
    /\ last_op' = OtherOp
    /\ UNCHANGED <<now, catalogVars_data, lockVars, schedVars, live_completed, w_item, w_out, future,
                   future_ref, started_at, pause_hit, serviceVars>>

\* _process_download_queue lines 446-505: search_youtube and the matcher pick a
\* candidate or none; with a candidate download_func is submitted to the executor
worker_search(picked) ==
    /\ UNCHANGED libVars
    /\ boot = "running" /\ wpc = "search"
    /\ IF picked
       THEN /\ future' = "pending"
            /\ future_ref' = TRUE
            /\ started_at' = now
            /\ wpc' = "wait"
            /\ UNCHANGED w_out
       ELSE /\ w_out' = [NoOut EXCEPT !.error_reason = "no candidate"]
            /\ wpc' = "mark"
            /\ UNCHANGED <<future, future_ref, started_at>>
    /\ UNCHANGED in_flight
    /\ last_op' = OtherOp
    /\ UNCHANGED <<now, catalogVars_data, lockVars, schedVars, liveVars, w_item, pause_hit, serviceVars>>

\* the executor thread starts running download_func
download_start ==
    /\ UNCHANGED libVars
    /\ boot = "running" /\ future = "pending"
    /\ future' = "running"
    /\ in_flight' = in_flight + 1
    /\ last_op' = OtherOp
    /\ UNCHANGED <<now, catalogVars_data, lockVars, schedVars, liveVars, wpc, w_item, w_out,
                   future_ref, started_at, pause_hit, serviceVars>>

\* SyncService.live_update_progress, called through progress_cb
live_update_progress(i, percent) ==
    live_current' = [k \in 1..Len(live_current) |->
        IF live_current[k].id = i
           /\ \A j \in 1..(k - 1) : live_current[j].id # i
        THEN [live_current[k] EXCEPT !.progress = percent]
        ELSE live_current[k]]

download_progress(percent) ==
    /\ UNCHANGED libVars
    /\ boot = "running" /\ future = "running"
    /\ live_update_progress(w_item, percent)
    /\ last_op' = OtherOp
    /\ UNCHANGED <<now, catalogVars_data, lockVars, schedVars, live_pending, live_completed,
                   workerVars, serviceVars>>

\* what download_func can do: return (True, path) with the file written, return
\* (True, None), return (False, None), raise
Outcomes == {"ok_path", "ok_nopath", "failed", "raised"}

\* download_func returns or raises in the executor thread
download_finish(outcome) ==
    /\ UNCHANGED libVars
    /\ UNCHANGED catalog_version
    /\ boot = "running" /\ future = "running"
    /\ future' = outcome
    /\ in_flight' = in_flight - 1
    /\ files' = IF outcome = "ok_path" THEN files \cup {PathOf(w_item)} ELSE files
    /\ recon' = IF outcome = "ok_path" /\ PathOf(w_item) \notin files
                THEN schedule_reconcile(recon) ELSE recon
    /\ last_op' = OtherOp
    /\ UNCHANGED <<now, tracks, failures, lockVars, schedVars, liveVars, wpc, w_item, w_out,
                   future_ref, started_at, pause_hit, status_queue, paused,
                   last_reconcile, boot, restarts, downloads>>

\* lines 506-524 for a future that is done or cancelled: the locals after
\* future.result() returned or raised
ResultOut(f) ==
    CASE f = "ok_path" -> [NoOut EXCEPT !.success = TRUE]
      [] f = "ok_nopath" -> [NoOut EXCEPT !.success = TRUE]
      [] f = "failed" -> NoOut
      [] f = "raised" -> [NoOut EXCEPT !.error_reason = "exception"]
      [] f = "cancelled" -> [NoOut EXCEPT !.was_cancelled = TRUE,
                                           !.error_reason = "cancelled"]

\* future.result(timeout=300) returns or raises CancelledError; the executor shuts down
worker_result ==
    /\ UNCHANGED libVars
    /\ boot = "running" /\ wpc = "wait"
    /\ future \in Outcomes \cup {"cancelled"}
    /\ w_out' = [ResultOut(future) EXCEPT !.downloaded_path =
                    IF future = "ok_path" THEN PathOf(w_item) ELSE None]
    /\ future' = "none"
    /\ future_ref' = FALSE
    /\ started_at' = 0
    /\ wpc' = "mark"
    /\ UNCHANGED in_flight
    /\ last_op' = OtherOp
    /\ UNCHANGED <<now, catalogVars_data, lockVars, schedVars, liveVars, w_item, pause_hit, serviceVars>>

\* future.result(timeout=300) raises TimeoutError: was_cancelled = True, future.cancel()
worker_timeout ==
    /\ UNCHANGED libVars
    /\ boot = "running" /\ wpc = "wait"
    /\ future \in {"pending", "running"}
    /\ now - started_at >= DOWNLOAD_TIMEOUT
    /\ w_out' = [NoOut EXCEPT !.was_cancelled = TRUE, !.error_reason = "timeout"]
    /\ future' = Cancel(future)
    /\ future_ref' = FALSE
    /\ started_at' = 0
    /\ wpc' = "shutdown"
    /\ UNCHANGED in_flight
    /\ last_op' = OtherOp
    /\ UNCHANGED <<now, catalogVars_data, lockVars, schedVars, liveVars, w_item, pause_hit, serviceVars>>

\* an executor left with shutdown(wait=False): the worker goes on while
\* download_func still runs
worker_shutdown_nowait ==
    /\ UNCHANGED libVars
    /\ boot = "running" /\ wpc = "shutdown"
    /\ future' = "none"
    /\ wpc' = "mark"
    /\ UNCHANGED in_flight
    /\ last_op' = OtherOp
    /\ UNCHANGED <<now, catalogVars_data, lockVars, schedVars, liveVars, w_item, w_out, future_ref,
                   started_at, pause_hit, serviceVars>>

\* leaving `with ThreadPoolExecutor(...)`: shutdown(wait=True) returns once
\* download_func has returned
worker_shutdown ==
    /\ UNCHANGED libVars
    /\ boot = "running" /\ wpc = "shutdown"
    /\ future \in Outcomes \cup {"cancelled"}
    /\ future' = "none"
    /\ wpc' = "mark"
    /\ UNCHANGED in_flight
    /\ last_op' = OtherOp
    /\ UNCHANGED <<now, catalogVars_data, lockVars, schedVars, liveVars, w_item, w_out, future_ref,
                   started_at, pause_hit, serviceVars>>

\* every unsuccessful download counted as a failure
DurableFailureCancelledToo(out) == ~out.success

\* a completion handling that writes a failure only when a reason was recorded
DurableFailureReasoned(out) ==
    ~out.success /\ ~out.was_cancelled /\ out.error_reason # None

\* line 542: a failure is written to the catalog
DurableFailure(out) == ~out.success /\ ~out.was_cancelled

\* lines 534-544: mark_download_success / mark_download_failure
worker_mark ==
    /\ UNCHANGED libVars
    /\ UNCHANGED catalog_version
    /\ boot = "running" /\ wpc = "mark"
    /\ IF w_out.success
       THEN IF w_out.downloaded_path # None
            THEN /\ tracks' = mark_download_success(tracks, w_item, w_out.downloaded_path, now)
                 /\ failures' = [failures EXCEPT ![w_item] = 0]
            ELSE UNCHANGED <<tracks, failures>>
       ELSE IF DurableFailure(w_out)
            THEN /\ tracks' = mark_download_failure(tracks, w_item,
                                IF w_out.error_reason # None THEN w_out.error_reason
                                ELSE "download failed", now)
                 /\ failures' = [failures EXCEPT ![w_item] =
                                    IF w_item \in DOMAIN tracks THEN @ + 1 ELSE @]
            ELSE UNCHANGED <<tracks, failures>>
    /\ wpc' = "live_complete"
    /\ UNCHANGED in_flight
    /\ last_op' = OtherOp
    /\ UNCHANGED <<now, files, lockVars, schedVars, liveVars, w_item, w_out, future, future_ref,
                   started_at, pause_hit, serviceVars>>

\* lines 539-552: mark_download_success or mark_download_failure raises (the
\* database is locked or gone); the except clause at line 548 prints the error, so
\* live_complete_item and sync_to_persistent_queue are skipped
worker_mark_raises ==
    /\ UNCHANGED libVars
    /\ boot = "running" /\ wpc = "mark"
    /\ \/ w_out.success /\ w_out.downloaded_path # None
       \/ DurableFailure(w_out)
    /\ wpc' = "post_reconcile"
    /\ last_op' = OtherOp
    /\ UNCHANGED <<now, catalogVars_data, lockVars, schedVars, liveVars, w_item, w_out, future,
                   future_ref, started_at, pause_hit, in_flight, serviceVars>>

\* a live_complete_item that records the item as completed and leaves it in current
live_complete_item_keeps_current(i, success) ==
    /\ UNCHANGED live_current
    /\ live_completed' = <<[id |-> i,
                            status |-> IF success THEN "downloaded" ELSE "missing",
                            timestamp |-> now]>> \o live_completed

\* SyncService.live_complete_item
live_complete_item(i, success) ==
    /\ live_current' = WithoutItem(live_current, i)
    /\ live_completed' = <<[id |-> i,
                            status |-> IF success THEN "downloaded" ELSE "missing",
                            timestamp |-> now]>> \o live_completed

\* line 546
worker_live_complete ==
    /\ UNCHANGED libVars
    /\ boot = "running" /\ wpc = "live_complete"
    /\ live_complete_item(w_item, w_out.success)
    /\ wpc' = "persist"
    /\ UNCHANGED in_flight
    /\ last_op' = OtherOp
    /\ UNCHANGED <<now, catalogVars_data, lockVars, schedVars, live_pending, w_item, w_out, future,
                   future_ref, started_at, pause_hit, serviceVars>>

\* SyncService.sync_to_persistent_queue: set_queue(current_items + pending_items)
sync_to_persistent_queue ==
    status_queue' = [status_queue EXCEPT !.pending =
        [k \in 1..Len(live_current) |-> live_current[k].id] \o live_pending]

\* line 546 with the completed list left out: live_complete_item only ever inserts
\* into it and no step of the worker reads it
worker_live_complete_unlisted ==
    /\ UNCHANGED libVars
    /\ boot = "running" /\ wpc = "live_complete"
    /\ live_current' = WithoutItem(live_current, w_item)
    /\ wpc' = "persist"
    /\ UNCHANGED in_flight
    /\ last_op' = OtherOp
    /\ UNCHANGED <<now, catalogVars_data, lockVars, schedVars, live_pending, live_completed, w_item,
                   w_out, future, future_ref, started_at, pause_hit, serviceVars>>

\* line 547
worker_persist ==
    /\ UNCHANGED libVars
    /\ boot = "running" /\ wpc = "persist"
    /\ sync_to_persistent_queue
    /\ wpc' = "post_reconcile"
    /\ UNCHANGED in_flight
    /\ last_op' = [op |-> "sync_to_persistent_queue", id |-> w_item]
    /\ UNCHANGED <<now, catalogVars_data, lockVars, schedVars, liveVars, w_item, w_out, future,
                   future_ref, started_at, pause_hit, paused, last_reconcile, recon,
                   boot, restarts, downloads>>

\* lines 553-554: reconcile_catalog(force=True)
worker_post_reconcile ==
    /\ UNCHANGED libVars
    /\ UNCHANGED catalog_version
    /\ boot = "running" /\ wpc = "post_reconcile"
    /\ reconcile_catalog(TRUE)
    /\ wpc' = "idle"
    /\ w_item' = None /\ w_out' = NoOut /\ pause_hit' = FALSE
    /\ UNCHANGED in_flight
    /\ last_op' = OtherOp
    /\ UNCHANGED <<now, files, failures, lockVars, schedVars, live_current, live_completed,
                   future, future_ref, started_at, paused, recon, boot, restarts, downloads>>

(* ---- reconcile_catalog of the sync thread, step by step ---- *)
\* sync_spotify_tracks line 167 calls reconcile_catalog(force=True); lines 186-200:
\* now = time.time(), reconcile_catalog_paths, pending_records = select_tracks_for_queue()
sync_reconcile_select ==
    /\ UNCHANGED <<dqVars, ptVars, srVars, mtVars, lkVars, ssVars, ciVars>>
    /\ boot = "running" /\ rc.pc = "idle"
    /\ LET tr == reconcile_catalog_paths(tracks, files, now)
       IN  /\ tracks' = tr
           /\ \E q \in select_tracks_for_queue(tr, now) :
                  rc' = [pc |-> "selected", pending |-> q, at |-> now]
    /\ last_op' = OtherOp
    /\ UNCHANGED <<now, files, failures, catalog_version, lockVars, schedVars, queueVars>>

\* lines 213-216 of the same call: set_live_pending_queue(pending_queue), set_queue,
\* _last_reconcile = now; no lock is held between the SELECT and this write
sync_reconcile_publish ==
    /\ UNCHANGED <<dqVars, ptVars, srVars, mtVars, lkVars, ssVars, ciVars>>
    /\ boot = "running" /\ rc.pc = "selected"
    /\ live_pending' = rc.pending
    /\ status_queue' = [status_queue EXCEPT !.pending = rc.pending]
    /\ last_reconcile' = rc.at
    /\ rc' = NoReconcile
    /\ last_op' = OtherOp
    /\ UNCHANGED <<now, catalogVars_data, lockVars, schedVars, live_current, live_completed,
                   workerVars, paused, recon, boot, restarts, downloads>>

(* ---- _schedule_reconcile, statement by statement ---- *)
\* the run() threads of _schedule_reconcile that have started and not ended
DebouncedInFlight == sr_run["sleep"] + sr_run["clear"]

\* calls of _schedule_reconcile under way
ReconcileCallsInside == {c \in ReconcileCallers : sr_pc[c] # "idle"}

\* a file of the music directory changes; CatalogHandler.on_any_event (lines 264-269)
\* enters _schedule_reconcile on the observer thread
on_any_event(path) ==
    /\ UNCHANGED <<dqVars, ptVars, rcVars, mtVars, lkVars, ssVars, ciVars>>
    /\ boot = "running" /\ sr_pc["observer"] = "idle"
    /\ DebouncedInFlight + Cardinality(ReconcileCallsInside) < MaxDebounced
    /\ files' = IF path \in files THEN files \ {path} ELSE files \cup {path}
    /\ sr_pc' = [sr_pc EXCEPT !["observer"] = "test"]
    /\ last_op' = OtherOp
    /\ sr_unscanned' = TRUE
    /\ UNCHANGED <<now, tracks, failures, catalog_version, lockVars, schedVars, queueVars,
                   pending_reconcile, sr_run>>

\* notify_config_updated lines 632-634 on an HTTP thread: _ensure_watchdog, then
\* _schedule_reconcile is entered
notify_config_updated ==
    /\ UNCHANGED <<dqVars, ptVars, rcVars, mtVars, lkVars, ssVars, ciVars>>
    /\ boot = "running" /\ sr_pc["config"] = "idle"
    /\ DebouncedInFlight + Cardinality(ReconcileCallsInside) < MaxDebounced
    /\ sr_pc' = [sr_pc EXCEPT !["config"] = "test"]
    /\ UNCHANGED <<programVars, pending_reconcile, sr_run, sr_unscanned>>

\* lines 325-326: if self._pending_reconcile.is_set(): return
schedule_reconcile_test(c) ==
    /\ UNCHANGED <<dqVars, ptVars, rcVars, mtVars, lkVars, ssVars, ciVars>>
    /\ sr_pc[c] = "test"
    /\ sr_pc' = [sr_pc EXCEPT ![c] = IF pending_reconcile THEN "idle" ELSE "set"]
    /\ UNCHANGED <<programVars, pending_reconcile, sr_run, sr_unscanned>>

\* line 327: self._pending_reconcile.set()
schedule_reconcile_set(c) ==
    /\ UNCHANGED <<dqVars, ptVars, rcVars, mtVars, lkVars, ssVars, ciVars>>
    /\ sr_pc[c] = "set"
    /\ pending_reconcile' = TRUE
    /\ sr_pc' = [sr_pc EXCEPT ![c] = "start"]
    /\ UNCHANGED <<programVars, sr_run, sr_unscanned>>

\* line 336: threading.Thread(target=run, daemon=True).start()
schedule_reconcile_start(c) ==
    /\ UNCHANGED <<dqVars, ptVars, rcVars, mtVars, lkVars, ssVars, ciVars>>
    /\ sr_pc[c] = "start"
    /\ sr_run' = [sr_run EXCEPT !["sleep"] = @ + 1]
    /\ sr_pc' = [sr_pc EXCEPT ![c] = "idle"]
    /\ UNCHANGED <<programVars, pending_reconcile, sr_unscanned>>

\* run() lines 331-332: time.sleep(1); self.reconcile_catalog(force=True)
run_reconcile ==
    /\ UNCHANGED <<dqVars, ptVars, rcVars, mtVars, lkVars, ssVars, ciVars>>
    /\ boot = "running" /\ sr_run["sleep"] > 0
    /\ reconcile_catalog(TRUE)
    /\ sr_run' = [sr_run EXCEPT !["sleep"] = @ - 1, !["clear"] = @ + 1]
    /\ sr_unscanned' = FALSE
    /\ last_op' = OtherOp
    /\ UNCHANGED <<now, files, failures, catalog_version, lockVars, schedVars, live_current,
                   live_completed, workerVars, paused, recon, boot, restarts, downloads,
                   pending_reconcile, sr_pc>>

\* run() lines 333-334: finally: self._pending_reconcile.clear(); the thread ends
run_clear ==
    /\ UNCHANGED <<dqVars, ptVars, rcVars, mtVars, lkVars, ssVars, ciVars>>
    /\ sr_run["clear"] > 0
    /\ pending_reconcile' = FALSE
    /\ sr_run' = [sr_run EXCEPT !["clear"] = @ - 1]
    /\ UNCHANGED <<programVars, sr_pc, sr_unscanned>>

\* _download_worker_loop with _paused clear, an iteration that finds nothing to
\* download: _process_download_queue lines 389-402, reconcile_catalog() and the
\* return on a non-empty current or an empty pending
download_worker_poll ==
    /\ UNCHANGED <<dqVars, ptVars, rcVars, mtVars, lkVars, ssVars, ciVars>>
    /\ boot = "running" /\ wpc = "idle" /\ ~paused
    /\ reconcile_catalog(FALSE)
    /\ live_current # <<>> \/ live_pending' = <<>>
    /\ sr_unscanned' = (sr_unscanned /\ now - last_reconcile < RECONCILE_INTERVAL)
    /\ last_op' = OtherOp
    /\ UNCHANGED <<now, files, failures, catalog_version, lockVars, schedVars, live_current,
                   live_completed, workerVars, paused, recon, boot, restarts, downloads,
                   pending_reconcile, sr_pc, sr_run>>

(* ---- the HTTP routes /queue and /reset-queue ---- *)
\* __init__.py queue_view with a service: service.get_live_queue_status()
queue_view ==
    [pending |-> live_pending, current |-> live_current, completed |-> live_completed]

\* __init__.py reset_queue lines 192-201: each current item of the status
\* document is inserted at the head of its completed list with status 'missing'
RECURSIVE moved_to_completed(_, _)
moved_to_completed(current_items, completed_items) ==
    IF current_items = <<>> THEN completed_items
    ELSE moved_to_completed(Tail(current_items),
            <<[id |-> Head(current_items), status |-> "missing", timestamp |-> now]>>
                \o completed_items)

\* POST /reset-queue: get_status(), the edit above, set_status(updated_status)
reset_queue ==
    /\ UNCHANGED libVars
    /\ boot = "running"
    /\ status_queue' = [status_queue EXCEPT
            !.current = <<>>,
            !.completed = moved_to_completed(status_queue.current, status_queue.completed)]
    /\ last_op' = [op |-> "reset_queue", id |-> None]
    /\ UNCHANGED <<now, catalogVars_data, lockVars, schedVars, liveVars, workerVars, paused,
                   last_reconcile, recon, boot, restarts, downloads>>

\* [item for item in seq if item["status"] == st]
RECURSIVE WithStatus(_, _)
WithStatus(seq, st) ==
    IF seq = <<>> THEN <<>>
    ELSE IF Head(seq).status = st THEN <<Head(seq)>> \o WithStatus(Tail(seq), st)
    ELSE WithStatus(Tail(seq), st)

\* status.reset_false_completions: the 'missing' items of completed go back to
\* pending unless they are there, completed keeps the 'downloaded' items
reset_false_completions(sq) ==
    LET RECURSIVE AddClean(_, _)
        AddClean(pend, failed_items) ==
            IF failed_items = <<>> THEN pend
            ELSE AddClean(IF Head(failed_items).id \in Range(pend) THEN pend
                          ELSE Append(pend, Head(failed_items).id), Tail(failed_items))
    IN  [sq EXCEPT !.pending = AddClean(sq.pending, WithStatus(sq.completed, "missing")),
                   !.completed = WithStatus(sq.completed, "downloaded")]

\* SyncService has no attribute _failed_items: line 133 of reset_errors raises
\* AttributeError when a service is configured
ServiceHasFailedItems == FALSE

\* POST /reset-errors with a service: line 129 writes the setting
\* 'retry_schedule', which nothing reads; line 133 raises, the handler answers
\* 500 and lines 136-143 (reset_false_completions, the counters) are not reached
reset_errors ==
    /\ UNCHANGED libVars
    /\ boot = "running"
    /\ status_queue' = IF ServiceHasFailedItems
                       THEN reset_false_completions(status_queue)
                       ELSE status_queue
    /\ last_op' = [op |-> "reset_errors", id |-> None]
    /\ UNCHANGED <<now, catalogVars_data, lockVars, schedVars, liveVars, workerVars, paused,
                   last_reconcile, recon, boot, restarts, downloads>>

(* ---- process restart ---- *)
\* status.cleanup_startup_state: current items go back to pending unless already there
cleanup_startup_state(sq) ==
    LET RECURSIVE AddMissing(_, _)
        AddMissing(pend, cur) ==
            IF cur = <<>> THEN pend
            ELSE AddMissing(IF Head(cur) \in Range(pend) THEN pend
                            ELSE Append(pend, Head(cur)), Tail(cur))
    IN  [sq EXCEPT !.pending = AddMissing(sq.pending, sq.current), !.current = <<>>]

\* SyncService._load_persistent_into_live: the pending queue it builds
load_persistent_pending(sq) == sq.pending \o sq.current

\* the process stops at any moment and app.py starts it again: a new SyncService,
\* register_persistence loads the saved status document, cleanup_startup_state,
\* bootstrap_live_queue_from_status
restart ==
    /\ UNCHANGED libVars
    /\ restarts < MaxRestarts
    /\ restarts' = restarts + 1
    /\ boot' = "loaded"
    /\ LET sq == cleanup_startup_state(status_queue)
       IN  /\ status_queue' = sq
           /\ live_pending' = load_persistent_pending(sq)
    /\ live_current' = <<>>
    /\ live_completed' = <<>>
    /\ wpc' = "idle" /\ w_item' = None /\ w_out' = NoOut
    /\ future' = "none" /\ future_ref' = FALSE /\ started_at' = 0
    /\ pause_hit' = FALSE /\ in_flight' = 0
    /\ paused' = FALSE /\ last_reconcile' = 0 /\ recon' = "clear"
    /\ last_op' = [op |-> "restart", id |-> None]
    /\ UNCHANGED <<now, catalogVars_data, lockVars, schedVars, downloads>>

\* app.py line 126: service.reconcile_catalog(force=True), then the worker starts
startup_reconcile ==
    /\ UNCHANGED libVars
    /\ UNCHANGED catalog_version
    /\ boot = "loaded"
    /\ reconcile_catalog(TRUE)
    /\ boot' = "running"
    /\ last_op' = OtherOp
    /\ UNCHANGED <<now, files, failures, lockVars, schedVars, live_current, live_completed,
                   workerVars, paused, recon, restarts, downloads>>

TickService ==
    /\ UNCHANGED libVars
    /\ UNCHANGED catalog_version
    /\ Tick(ServiceTickSeconds, MaxClockService)
    /\ last_op' = OtherOp
    /\ UNCHANGED <<tracks, files, failures, lockVars, schedVars, queueVars>>

(* ------------------------------------------------------------------ *)
(* sync_lock.py                                                         *)
(* ------------------------------------------------------------------ *)
InitLock ==
    /\ lock_held = FALSE
    /\ busy = FALSE
    /\ busy_since = NoInt
    /\ pc = [c \in Callers |-> "idle"]
    /\ acquired = [c \in Callers |-> FALSE]
    /\ ran = [c \in Callers |-> FALSE]
    /\ result = [c \in Callers |-> None]
    /\ cpc = [k \in Checkers |-> "idle"]

\* a lock whose non-blocking acquire always succeeds
TryAcquireAlways(held) == TRUE

\* threading.Lock.acquire(blocking=False): the value returned for a lock in state `held`
TryAcquire(held) == ~held

\* run_once() is entered: `with sync_lock() as acquired`
run_once_call(c) ==
    /\ UNCHANGED libVars
    /\ pc[c] = "idle"
    /\ pc' = [pc EXCEPT ![c] = "acquire"]
    /\ result' = [result EXCEPT ![c] = None]
    /\ UNCHANGED <<now, lock_held, busy, busy_since, acquired, ran, cpc, schedVars, catalogVars, queueVars>>

\* line 13: acquired = _lock.acquire(blocking=False)
sync_lock_acquire(c) ==
    /\ UNCHANGED libVars
    /\ pc[c] = "acquire"
    /\ acquired' = [acquired EXCEPT ![c] = TryAcquire(lock_held)]
    /\ lock_held' = TRUE
    /\ pc' = [pc EXCEPT ![c] = "check"]
    /\ UNCHANGED <<now, busy, busy_since, ran, result, cpc, schedVars, catalogVars, queueVars>>

\* line 15: if not acquired or _busy: yield False
sync_lock_check(c) ==
    /\ UNCHANGED libVars
    /\ pc[c] = "check"
    /\ pc' = [pc EXCEPT ![c] = IF ~acquired[c] \/ busy THEN "refused" ELSE "set_busy"]
    /\ UNCHANGED <<now, lock_held, busy, busy_since, acquired, ran, result, cpc, schedVars, catalogVars, queueVars>>

\* line 19: _busy = True
sync_lock_set_busy(c) ==
    /\ UNCHANGED libVars
    /\ pc[c] = "set_busy"
    /\ busy' = TRUE
    /\ pc' = [pc EXCEPT ![c] = "set_since"]
    /\ UNCHANGED <<now, lock_held, busy_since, acquired, ran, result, cpc, schedVars, catalogVars, queueVars>>

\* line 20: _busy_since = time.time(); yield True
sync_lock_set_since(c) ==
    /\ UNCHANGED libVars
    /\ pc[c] = "set_since"
    /\ busy_since' = now
    /\ pc' = [pc EXCEPT ![c] = "body"]
    /\ UNCHANGED <<now, lock_held, busy, acquired, ran, result, cpc, schedVars, catalogVars, queueVars>>

\* run_once body with acquired = True: return self.sync_spotify_tracks()
run_once_sync(c) ==
    /\ UNCHANGED libVars
    /\ pc[c] = "body"
    /\ ran' = [ran EXCEPT ![c] = TRUE]
    /\ pc' = [pc EXCEPT ![c] = "exit_check"]
    /\ UNCHANGED <<now, lock_held, busy, busy_since, acquired, result, cpc, schedVars, catalogVars, queueVars>>

\* run_once body with acquired = True: fetch_spotify_tracks (line 67, outside any
\* try) raises, and the exception leaves the with block through its finally clause
run_once_raises(c) ==
    /\ UNCHANGED libVars
    /\ pc[c] = "body"
    /\ result' = [result EXCEPT ![c] = "raised"]
    /\ pc' = [pc EXCEPT ![c] = "exit_check"]
    /\ UNCHANGED <<now, lock_held, busy, busy_since, acquired, ran, cpc, schedVars, catalogVars, queueVars>>

\* what run_once gives its caller when the with block is left: the exception of
\* the body, or the value returned
run_once_outcome(c) ==
    IF result[c] = "raised" THEN "raised" ELSE IF ran[c] THEN "True" ELSE "False"

\* run_once body with acquired = False: return False
run_once_refused(c) ==
    /\ UNCHANGED libVars
    /\ pc[c] = "refused"
    /\ pc' = [pc EXCEPT ![c] = "exit_check"]
    /\ UNCHANGED <<now, lock_held, busy, busy_since, acquired, ran, result, cpc, schedVars, catalogVars, queueVars>>

\* line 23: finally: if acquired and _busy; otherwise run_once returns
sync_lock_exit_check(c) ==
    /\ UNCHANGED libVars
    /\ pc[c] = "exit_check"
    /\ IF acquired[c] /\ busy
       THEN /\ pc' = [pc EXCEPT ![c] = "clear_busy"]
            /\ UNCHANGED <<result, acquired, ran>>
       ELSE /\ pc' = [pc EXCEPT ![c] = "idle"]
            /\ result' = [result EXCEPT ![c] = run_once_outcome(c)]
            /\ acquired' = [acquired EXCEPT ![c] = FALSE]
            /\ ran' = [ran EXCEPT ![c] = FALSE]
    /\ UNCHANGED <<now, lock_held, busy, busy_since, cpc, schedVars, catalogVars, queueVars>>

\* line 24: _busy = False
sync_lock_clear_busy(c) ==
    /\ UNCHANGED libVars
    /\ pc[c] = "clear_busy"
    /\ busy' = FALSE
    /\ pc' = [pc EXCEPT ![c] = "clear_since"]
    /\ UNCHANGED <<now, lock_held, busy_since, acquired, ran, result, cpc, schedVars, catalogVars, queueVars>>

\* line 25: _busy_since = None
sync_lock_clear_since(c) ==
    /\ UNCHANGED libVars
    /\ pc[c] = "clear_since"
    /\ busy_since' = NoInt
    /\ pc' = [pc EXCEPT ![c] = "release"]
    /\ UNCHANGED <<now, lock_held, busy, acquired, ran, result, cpc, schedVars, catalogVars, queueVars>>

\* line 26: _lock.release(); releasing an unlocked lock raises RuntimeError
\* out of run_once, otherwise run_once returns
sync_lock_release(c) ==
    /\ UNCHANGED libVars
    /\ pc[c] = "release"
    /\ lock_held' = FALSE
    /\ pc' = [pc EXCEPT ![c] = "idle"]
    /\ result' = [result EXCEPT ![c] =
                    IF ~lock_held THEN "RuntimeError" ELSE run_once_outcome(c)]
    /\ acquired' = [acquired EXCEPT ![c] = FALSE]
    /\ ran' = [ran EXCEPT ![c] = FALSE]
    /\ UNCHANGED <<now, busy, busy_since, cpc, schedVars, catalogVars, queueVars>>

\* lines 32-33: if not _busy: return False
is_sync_running_enter(k) ==
    /\ UNCHANGED libVars
    /\ cpc[k] = "idle"
    /\ cpc' = [cpc EXCEPT ![k] = IF ~busy THEN "idle" ELSE "timeout_check"]
    /\ UNCHANGED <<now, lock_held, busy, busy_since, pc, acquired, ran, result, schedVars, catalogVars, queueVars>>

\* line 36: if _busy_since and time.time() - _busy_since > _SYNC_TIMEOUT;
\* otherwise line 47: return _busy
is_sync_running_timeout_check(k) ==
    /\ UNCHANGED libVars
    /\ cpc[k] = "timeout_check"
    /\ cpc' = [cpc EXCEPT ![k] =
                 IF busy_since # NoInt /\ busy_since # 0 /\ now - busy_since > SYNC_TIMEOUT
                 THEN "recover_busy" ELSE "idle"]
    /\ UNCHANGED <<now, lock_held, busy, busy_since, pc, acquired, ran, result, schedVars, catalogVars, queueVars>>

\* line 38: _busy = False
is_sync_running_recover_busy(k) ==
    /\ UNCHANGED libVars
    /\ cpc[k] = "recover_busy"
    /\ busy' = FALSE
    /\ cpc' = [cpc EXCEPT ![k] = "recover_since"]
    /\ UNCHANGED <<now, lock_held, busy_since, pc, acquired, ran, result, schedVars, catalogVars, queueVars>>

\* line 39: _busy_since = None
is_sync_running_recover_since(k) ==
    /\ UNCHANGED libVars
    /\ cpc[k] = "recover_since"
    /\ busy_since' = NoInt
    /\ cpc' = [cpc EXCEPT ![k] = "recover_release"]
    /\ UNCHANGED <<now, lock_held, busy, pc, acquired, ran, result, schedVars, catalogVars, queueVars>>

\* lines 40-45: try: _lock.release() except RuntimeError: pass; return False
is_sync_running_recover_release(k) ==
    /\ UNCHANGED libVars
    /\ cpc[k] = "recover_release"
    /\ lock_held' = FALSE
    /\ cpc' = [cpc EXCEPT ![k] = "idle"]
    /\ UNCHANGED <<now, busy, busy_since, pc, acquired, ran, result, schedVars, catalogVars, queueVars>>

\* the steps of a run_once call that has been entered
RunOnceStep(c) ==
    \/ sync_lock_acquire(c)
    \/ sync_lock_check(c)
    \/ sync_lock_set_busy(c)
    \/ sync_lock_set_since(c)
    \/ run_once_sync(c)
    \/ run_once_refused(c)
    \/ sync_lock_exit_check(c)
    \/ sync_lock_clear_busy(c)
    \/ sync_lock_clear_since(c)
    \/ sync_lock_release(c)

CallerStep(c) ==
    \/ run_once_call(c)
    \/ RunOnceStep(c)

CheckerStep(k) ==
    \/ is_sync_running_enter(k)
    \/ is_sync_running_timeout_check(k)
    \/ is_sync_running_recover_busy(k)
    \/ is_sync_running_recover_since(k)
    \/ is_sync_running_recover_release(k)

(* ------------------------------------------------------------------ *)
(* sync_service.py: start_scheduler and sync_now                        *)
(* ------------------------------------------------------------------ *)
\* the interval_seconds argument of start_scheduler
interval_seconds == 2
\* the thread of start_scheduler, and the callers of sync_now
Scheduler == "scheduler"
ManualCallers == {"manual1"}

\* int(x) of a float x >= 0 given in half seconds, rounding up instead of truncating
int_ceil(x) == (x + HalvesPerSecond - 1) \div HalvesPerSecond

\* int(x) of a float x >= 0 given in half seconds: truncation to whole seconds
int(x) == x \div HalvesPerSecond

\* completed_at + int(interval_seconds), in half seconds
Deadline(completed) == completed + HalvesPerSecond * interval_seconds

InitScheduler ==
    /\ half = 0
    /\ spc = "top"
    /\ completed_at = NoInt
    /\ next_run_at = NoInt
    /\ wake_at = NoInt
    /\ timer_reset = FALSE
    /\ snpc = [c \in ManualCallers |-> "idle"]

\* line 572: self.next_run_at = None
sched_clear ==
    /\ UNCHANGED libVars
    /\ spc = "top"
    /\ next_run_at' = NoInt
    /\ spc' = "call"
    /\ UNCHANGED <<now, lockVars, half, completed_at, wake_at, timer_reset, snpc,
                   catalogVars, queueVars>>

\* line 573: self.run_once(reason="scheduled") is entered
sched_call ==
    /\ UNCHANGED libVars
    /\ spc = "call"
    /\ pc[Scheduler] = "idle"
    /\ pc' = [pc EXCEPT ![Scheduler] = "acquire"]
    /\ result' = [result EXCEPT ![Scheduler] = None]
    /\ spc' = "running"
    /\ UNCHANGED <<now, lock_held, busy, busy_since, acquired, ran, cpc, half,
                   completed_at, next_run_at, wake_at, timer_reset, snpc,
                   catalogVars, queueVars>>

\* lines 575-579: run_once has returned; completed_at = time.time();
\* self.next_run_at = int(completed_at + int(interval_seconds))
sched_completed ==
    /\ UNCHANGED libVars
    /\ spc = "running"
    /\ pc[Scheduler] = "idle"
    /\ result[Scheduler] \in {"True", "False"}
    /\ completed_at' = time_time
    /\ next_run_at' = int(Deadline(time_time))
    /\ spc' = "wait"
    /\ UNCHANGED <<now, lockVars, half, wake_at, timer_reset, snpc, catalogVars, queueVars>>

\* line 573: run_once has raised; loop() has no handler, so the scheduler thread
\* ends with next_run_at as line 572 left it
sched_raised ==
    /\ UNCHANGED libVars
    /\ spc = "running"
    /\ pc[Scheduler] = "idle"
    /\ result[Scheduler] \in {"raised", "RuntimeError"}
    /\ spc' = "dead"
    /\ UNCHANGED <<now, lockVars, half, completed_at, next_run_at, wake_at, timer_reset, snpc,
                   catalogVars, queueVars>>

\* lines 582-600, one pass of the inner loop: the interval is over and the
\* outer loop goes round; or a timer reset is observed; or the thread sleeps
sched_wait ==
    /\ UNCHANGED libVars
    /\ spc = "wait"
    /\ LET wait_seconds == Deadline(completed_at) - time_time
       IN  IF wait_seconds <= 0
           THEN /\ spc' = "top"
                /\ completed_at' = time_time
                /\ UNCHANGED <<next_run_at, wake_at, timer_reset>>
           ELSE IF timer_reset
           THEN /\ timer_reset' = FALSE
                /\ completed_at' = time_time
                /\ next_run_at' = int(Deadline(time_time))
                /\ UNCHANGED <<spc, wake_at>>
           ELSE /\ wake_at' = time_time + Min(wait_seconds, HalvesPerSecond)
                /\ spc' = "sleep"
                /\ UNCHANGED <<completed_at, next_run_at, timer_reset>>
    /\ UNCHANGED <<now, lockVars, half, snpc, catalogVars, queueVars>>

\* line 599: self._stop.wait(sleep_for) returns, at sleep_for or later
sched_wake ==
    /\ UNCHANGED libVars
    /\ spc = "sleep"
    /\ time_time >= wake_at
    /\ spc' = "wait"
    /\ wake_at' = NoInt
    /\ UNCHANGED <<now, lockVars, half, completed_at, next_run_at, timer_reset, snpc,
                   catalogVars, queueVars>>

\* sync_now line 626: result = self.run_once(reason="manual") is entered
sync_now_call(c) ==
    /\ UNCHANGED libVars
    /\ snpc[c] = "idle"
    /\ pc[c] = "idle"
    /\ pc' = [pc EXCEPT ![c] = "acquire"]
    /\ result' = [result EXCEPT ![c] = None]
    /\ snpc' = [snpc EXCEPT ![c] = "run_once"]
    /\ UNCHANGED <<now, lock_held, busy, busy_since, acquired, ran, cpc, half, spc,
                   completed_at, next_run_at, wake_at, timer_reset,
                   catalogVars, queueVars>>

\* sync_now lines 627-630: if result: self._timer_reset.set(); return result
sync_now_return(c) ==
    /\ UNCHANGED libVars
    /\ snpc[c] = "run_once"
    /\ pc[c] = "idle"
    /\ timer_reset' = (timer_reset \/ result[c] = "True")
    /\ snpc' = [snpc EXCEPT ![c] = "idle"]
    /\ UNCHANGED <<now, lockVars, half, spc, completed_at, next_run_at, wake_at,
                   catalogVars, queueVars>>

\* half a second passes
TickScheduler ==
    /\ UNCHANGED libVars
    /\ HalvesPerSecond * now + half < HalvesPerSecond * MaxClockScheduler
    /\ IF half + 1 = HalvesPerSecond
       THEN now' = now + 1 /\ half' = 0
       ELSE half' = half + 1 /\ UNCHANGED now
    /\ UNCHANGED <<lockVars, spc, completed_at, next_run_at, wake_at, timer_reset, snpc,
                   catalogVars, queueVars>>

\* the scheduler thread and the sync_now callers over the sync lock
NextScheduler ==
    \/ sched_clear
    \/ sched_call
    \/ RunOnceStep(Scheduler)
    \/ run_once_raises(Scheduler)
    \/ sched_completed
    \/ sched_raised
    \/ sched_wait
    \/ sched_wake
    \/ \E c \in ManualCallers : sync_now_call(c)
    \/ \E c \in ManualCallers : RunOnceStep(c)
    \/ \E c \in ManualCallers : sync_now_return(c)
    \/ TickScheduler

InitSchedulerSpec == now = StartClock /\ InitLock /\ InitScheduler /\ InitLib /\ InitCatalog /\ InitService

SpecScheduler == InitSchedulerSpec /\ [][NextScheduler]_vars

TickLock ==
    /\ Tick(LockTickSeconds, MaxClockLock)
    /\ UNCHANGED <<lockVars, schedVars, catalogVars, queueVars, libVars>>

InitSyncLock == now = StartClock /\ InitLock /\ InitScheduler /\ InitLib /\ InitCatalog /\ InitService

\* run_once callers only: the repository itself never calls is_sync_running
NextRunOnce ==
    \/ \E c \in Callers : CallerStep(c)
    \/ TickLock

SpecRunOnce == InitSyncLock /\ [][NextRunOnce]_vars

\* the sync_lock module as a whole: run_once callers and is_sync_running callers
NextSyncLock ==
    \/ \E c \in Callers : CallerStep(c)
    \/ \E k \in Checkers : CheckerStep(k)
    \/ TickLock

SpecSyncLock == InitSyncLock /\ [][NextSyncLock]_vars

(* ------------------------------------------------------------------ *)
(* The catalog API on its own                                           *)
(* ------------------------------------------------------------------ *)
\* a DedupQueue of any capacity under any sequence of calls
InitDedupQueueSpec ==
    /\ now = StartClock /\ InitLock /\ InitScheduler /\ InitCatalog /\ InitService
    /\ \E cap \in DedupCaps : InitDedupQueue(cap)
    /\ NoPathTemplate /\ NoReconcileInFlight /\ InitScheduleReconcile /\ NoMatching /\ InitLocks /\ InitStartScheduler /\ NoCatalogItem

NextDedupQueue ==
    \/ \E track \in DedupTracks : enqueue(track)
    \/ dequeue

SpecDedupQueue == InitDedupQueueSpec /\ [][NextDedupQueue]_vars

\* every template with every choice of fields
InitPathTemplateSpec ==
    /\ now = StartClock /\ InitLock /\ InitScheduler /\ InitCatalog /\ InitService
    /\ NoDedupQueue /\ NoReconcileInFlight /\ InitScheduleReconcile /\ NoMatching /\ InitLocks /\ InitStartScheduler /\ NoCatalogItem
    /\ pt_tmpl \in {tmpl \in Templates : validate_user_template(tmpl)}
    /\ pt_fields \in FieldValues
    /\ pt_out = NoPathOut

NextPathTemplate == match_rendered_path

SpecPathTemplate == InitPathTemplateSpec /\ [][NextPathTemplate]_vars

\* The threads of the service over the live-queue lock and the status lock
NextLocks ==
    \/ \E t \in LockThreads : lock_call(t)
    \/ \E t \in LockThreads : lock_acquire(t)
    \/ \E t \in LockThreads : lock_release(t)

InitLocksSpec ==
    now = StartClock /\ InitLock /\ InitScheduler /\ InitLib /\ InitCatalog /\ InitService

SpecLocks == InitLocksSpec /\ [][NextLocks]_vars

\* Concurrent start_scheduler and stop_scheduler calls and the threads they start
NextStartScheduler ==
    \/ \E c \in SchedulerStarters : start_scheduler_call(c)
    \/ \E c \in SchedulerStarters : start_scheduler_test(c)
    \/ \E c \in SchedulerStarters : start_scheduler_clear(c)
    \/ \E c \in SchedulerStarters : start_scheduler_start(c)
    \/ \E c \in SchedulerStoppers : stop_scheduler_set(c)
    \/ \E c \in SchedulerStoppers : stop_scheduler_join(c)
    \/ \E th \in 1..MaxSchedulerThreads : scheduler_loop_exit(th)
    \/ download_worker_loop_exit

InitStartSchedulerSpec ==
    now = StartClock /\ InitLock /\ InitScheduler /\ InitLib /\ InitCatalog /\ InitService

SpecStartScheduler == InitStartSchedulerSpec /\ [][NextStartScheduler]_vars

\* POST /config and the worker's matcher, for one candidate and one target
InitMatchingSpec ==
    /\ now = StartClock /\ InitLock /\ InitScheduler /\ InitCatalog /\ InitService
    /\ NoDedupQueue /\ NoPathTemplate /\ NoReconcileInFlight /\ InitScheduleReconcile
    /\ InitLocks /\ InitStartScheduler /\ NoCatalogItem
    /\ mt_posted = FALSE
    /\ mt_settings = NoSettings
    /\ mt_candidate \in [artist : MatchArtists, title : MatchTitles, duration : MatchDurations]
    /\ mt_target = TargetTrack
    /\ mt_out = "none"

NextMatching ==
    \/ \E strict \in BOOLEAN : set_config(strict)
    \/ worker_match

SpecMatching == InitMatchingSpec /\ [][NextMatching]_vars

InitCatalogItemSpec ==
    /\ now = StartClock /\ InitLock /\ InitScheduler /\ InitCatalog /\ InitService
    /\ NoDedupQueue /\ NoPathTemplate /\ NoReconcileInFlight /\ InitScheduleReconcile
    /\ NoMatching /\ InitLocks /\ InitStartScheduler
    /\ ci_pc = "fetched"
    /\ ci_track \in [artist : CatalogArtists, title : CatalogTitles, duration : CatalogDurations]
    /\ ci_row = NoCatalogRow
    /\ ci_updated = {}

NextCatalogItem == sync_writes_row \/ worker_marks_row

SpecCatalogItem == InitCatalogItemSpec /\ [][NextCatalogItem]_vars

\* C36: the identity stored in a catalog row is identity_key of the row's stored
\* artist, title and duration, and the worker's mark call, made with the key
\* recomputed from the queue item, updates exactly that row
C36_RowIdentityMatchesFields ==
    /\ ci_pc \in {"stored", "marked"} => identity_key_chars(queue_item(ci_row)) = ci_row.identity
    /\ ci_pc = "marked" => ci_updated = {ci_row.identity}

InitCatalogSpec == now = StartClock /\ InitLock /\ InitScheduler /\ InitLib /\ InitCatalog /\ InitService

NextCatalog ==
    \/ \E batch \in SUBSET Ids : db_upsert_tracks(batch)
    \/ \E i \in Ids, path \in Paths : db_mark_download_success(i, path)
    \/ \E i \in Ids, error \in Errors : db_mark_download_failure(i, error)
    \/ db_reconcile_catalog_paths
    \/ \E path \in Paths : fs_create(path)
    \/ \E path \in Paths : fs_delete(path)
    \/ TickCatalog

SpecCatalog == InitCatalogSpec /\ [][NextCatalog]_vars

(* ------------------------------------------------------------------ *)
(* The service: sync cycles, watchdog, pause/resume, worker, restart    *)
(* ------------------------------------------------------------------ *)
InitServiceSpec == now = StartClock /\ InitLock /\ InitScheduler /\ InitLib /\ InitCatalog /\ InitService

NextService ==
    \/ \E fetched \in FetchedLists : sync_spotify_tracks(fetched)
    \/ \E path \in Paths : watched_fs_change(path)
    \/ debounced_reconcile
    \/ debounced_clear
    \/ pause_downloads
    \/ resume_downloads
    \/ worker_begin
    \/ worker_move
    \/ \E picked \in BOOLEAN : worker_search(picked)
    \/ download_start
    \/ \E percent \in Percents : download_progress(percent)
    \/ \E outcome \in Outcomes : download_finish(outcome)
    \/ worker_result
    \/ worker_timeout
    \/ worker_shutdown
    \/ worker_mark
    \/ worker_live_complete
    \/ worker_persist
    \/ worker_post_reconcile
    \/ restart
    \/ startup_reconcile
    \/ TickService

SpecService == InitServiceSpec /\ [][NextService]_vars


\* The sync cycle, POST /reset-queue and POST /reset-errors interleaved with the download worker,
\* for two downloads
NextWorker ==
    \/ \E fetched \in FetchedLists : sync_spotify_tracks(fetched)
    \/ worker_begin_upto(MaxDownloadsWorker)
    \/ worker_move
    \/ \E picked \in BOOLEAN : worker_search(picked)
    \/ download_start
    \/ \E percent \in Percents : download_progress(percent)
    \/ \E outcome \in Outcomes : download_finish(outcome)
    \/ worker_result
    \/ worker_timeout
    \/ worker_shutdown
    \/ worker_mark
    \/ worker_live_complete
    \/ worker_persist
    \/ worker_post_reconcile
    \/ reset_queue
    \/ reset_errors
    \/ TickService

SpecWorker == InitServiceSpec /\ [][NextWorker]_vars

\* a step of the download worker thread inside _process_download_queue, or of the
\* executor thread it waits for
WorkerCycleStep ==
    \/ worker_move
    \/ \E picked \in BOOLEAN : worker_search(picked)
    \/ download_start
    \/ \E outcome \in Outcomes : download_finish(outcome)
    \/ worker_result
    \/ worker_shutdown
    \/ worker_mark
    \/ worker_mark_raises
    \/ worker_live_complete
    \/ worker_persist
    \/ worker_post_reconcile

\* The download worker with catalog writes that can raise, for two downloads
NextWorkerFaults ==
    \/ \E fetched \in FetchedLists : sync_spotify_tracks(fetched)
    \/ worker_begin_upto(MaxDownloadsWorker)
    \/ worker_move
    \/ \E picked \in BOOLEAN : worker_search(picked)
    \/ download_start
    \/ \E percent \in Percents : download_progress(percent)
    \/ \E outcome \in Outcomes : download_finish(outcome)
    \/ worker_result
    \/ worker_timeout
    \/ worker_shutdown
    \/ worker_mark
    \/ worker_mark_raises
    \/ worker_live_complete
    \/ worker_persist
    \/ worker_post_reconcile
    \/ TickService

\* the worker thread and its executor keep running
SpecWorkerFaults ==
    InitServiceSpec /\ [][NextWorkerFaults]_vars /\ WF_vars(WorkerCycleStep)

\* a step of the download worker thread itself once download_func was submitted;
\* the executor thread's steps (download_start, download_finish) are not among them
WorkerThreadStep ==
    \/ worker_result
    \/ worker_timeout
    \/ worker_shutdown
    \/ worker_mark
    \/ worker_mark_raises
    \/ worker_live_complete
    \/ worker_persist
    \/ worker_post_reconcile

\* the worker thread keeps running; download_func may never return
SpecWorkerTimeout ==
    InitServiceSpec /\ [][NextWorkerFaults]_vars /\ WF_vars(WorkerThreadStep)

\* C37: once future.result(timeout=300) has raised TimeoutError, the worker goes on
\* to record the cancelled outcome whether or not download_func ever returns
C37_TimeoutDoesNotWait == (wpc = "shutdown") ~> (wpc = "mark" /\ w_out.was_cancelled)

\* the steps of the worker thread in _process_download_queue, without end
WorkerLoopStep ==
    \/ worker_begin_uncounted
    \/ worker_move
    \/ \E picked \in BOOLEAN : worker_search(picked)
    \/ worker_result
    \/ worker_timeout
    \/ worker_shutdown
    \/ worker_mark
    \/ worker_live_complete_unlisted
    \/ worker_persist
    \/ worker_post_reconcile

\* the steps of the executor thread: download_func starts, and returns or raises
ExecutorStep == download_start \/ \E outcome \in Outcomes : download_finish(outcome)

\* The download worker going on without end, never paused, with catalog writes
\* that succeed
NextWorkerLoop ==
    \/ \E fetched \in FetchedLists : sync_spotify_tracks(fetched)
    \/ worker_begin_uncounted
    \/ worker_move
    \/ \E picked \in BOOLEAN : worker_search(picked)
    \/ download_start
    \/ \E outcome \in Outcomes : download_finish(outcome)
    \/ worker_result
    \/ worker_timeout
    \/ worker_shutdown
    \/ worker_mark
    \/ worker_live_complete_unlisted
    \/ worker_persist
    \/ worker_post_reconcile
    \/ TickService

\* the worker thread keeps running and every download_func call returns
SpecWorkerLoop ==
    InitServiceSpec /\ [][NextWorkerLoop]_vars /\ WF_vars(WorkerLoopStep) /\ WF_vars(ExecutorStep)

\* The download worker, for two downloads, interleaved with a sync thread whose
\* reconcile_catalog call is taken step by step
NextReconcileRace ==
    \/ \E fetched \in FetchedLists : sync_spotify_tracks(fetched)
    \/ sync_reconcile_select
    \/ sync_reconcile_publish
    \/ worker_begin_upto(MaxDownloadsWorker)
    \/ worker_move
    \/ \E picked \in BOOLEAN : worker_search(picked)
    \/ download_start
    \/ \E percent \in Percents : download_progress(percent)
    \/ \E outcome \in Outcomes : download_finish(outcome)
    \/ worker_result
    \/ worker_timeout
    \/ worker_shutdown
    \/ worker_mark
    \/ worker_live_complete
    \/ worker_persist
    \/ worker_post_reconcile
    \/ TickService

SpecReconcileRace == InitServiceSpec /\ [][NextReconcileRace]_vars

\* The filesystem observer and an HTTP thread calling _schedule_reconcile, the run()
\* threads it starts, and the sync cycle that fills the catalog
NextScheduleReconcile ==
    \/ \E fetched \in FetchedLists : sync_spotify_tracks(fetched)
    \/ \E path \in Paths : on_any_event(path)
    \/ notify_config_updated
    \/ \E c \in ReconcileCallers : schedule_reconcile_test(c)
    \/ \E c \in ReconcileCallers : schedule_reconcile_set(c)
    \/ \E c \in ReconcileCallers : schedule_reconcile_start(c)
    \/ run_reconcile
    \/ run_clear

SpecScheduleReconcile == InitServiceSpec /\ [][NextScheduleReconcile]_vars

\* the threads that run _schedule_reconcile, and the run() threads
ScheduleReconcileStep(c) ==
    schedule_reconcile_test(c) \/ schedule_reconcile_set(c) \/ schedule_reconcile_start(c)
RunStep == run_reconcile \/ run_clear

\* Filesystem notifications against the debounced reconcile and the worker loop's
\* own reconcile_catalog() call, with the download switch, over an empty catalog.
\* No scheduler thread runs: app.py lines 135-136 start it only once the
\* configuration is complete, so no sync cycle scans here
NextNotify ==
    \/ \E path \in Paths : on_any_event(path)
    \/ notify_config_updated
    \/ \E c \in ReconcileCallers : schedule_reconcile_test(c)
    \/ \E c \in ReconcileCallers : schedule_reconcile_set(c)
    \/ \E c \in ReconcileCallers : schedule_reconcile_start(c)
    \/ run_reconcile
    \/ run_clear
    \/ download_worker_poll
    \/ pause_downloads
    \/ resume_downloads
    \/ TickService

\* every thread keeps running: the callers inside _schedule_reconcile, the run()
\* threads, the worker loop while it is not paused, and the clock
SpecNotify ==
    /\ InitServiceSpec /\ [][NextNotify]_vars
    /\ \A c \in ReconcileCallers : WF_vars(ScheduleReconcileStep(c))
    /\ WF_vars(RunStep)
    /\ WF_vars(download_worker_poll) /\ WF_vars(TickService)

(* ------------------------------------------------------------------ *)
(* Properties of the service                                            *)
(* ------------------------------------------------------------------ *)
\* the worker thread takes a step from position a to position b
WorkerStep(a, b) == wpc = a /\ wpc' = b /\ restarts' = restarts

\* the fields of a row that a durable failure writes
RetryFields(tr, i) ==
    IF i \in DOMAIN tr
    THEN <<tr[i].download_attempts, tr[i].retry_after, tr[i].last_error>>
    ELSE <<>>

\* the fields of a row that a download's completion writes
OutcomeFields(tr, i) ==
    IF i \in DOMAIN tr THEN <<tr[i].status, tr[i].download_attempts>> ELSE <<>>

\* C2: in every reachable state of the live queue no identity is in both pending
\* and current.
C2_PendingCurrentDisjoint == Range(live_pending) \cap CurrentIds = {}

\* the identities of the claim: normalised artist and title, 5-second duration bucket
IdentityClasses(fetched) ==
    {<<normalize_text(fetched[k].artist), normalize_text(fetched[k].title),
       fetched[k].duration \div 5>> : k \in 1..Len(fetched)}

\* the number of items of pending with identity i
PendingCount(q, i) == Cardinality({k \in 1..Len(q) : q[k] = i})

\* C13: after a sync cycle the catalog holds exactly one row for each identity of the
\* fetched tracks, however many entries share it, and pending holds the identity
\* once if its row is due for download and not at all otherwise; on an empty catalog
\* the catalog and pending both end with one entry per fetched identity.
C13_SyncDeduplicates ==
    [][last_op'.op = "sync_deduplicated" =>
       \A fetched \in FetchedLists :
        sync_spotify_tracks(fetched)
        => /\ Cardinality({identity_key(fetched[k]) : k \in 1..Len(fetched)})
                = Cardinality(IdentityClasses(fetched))
           /\ \A k \in 1..Len(fetched) :
                LET i == identity_key(fetched[k])
                IN  /\ i \in DOMAIN tracks'
                    /\ PendingCount(live_pending', i)
                         = IF i \in Eligible(tracks', now) THEN 1 ELSE 0
           /\ tracks = <<>>
                => /\ Cardinality(DOMAIN tracks') = Cardinality(IdentityClasses(fetched))
                   /\ Len(live_pending') = Cardinality(IdentityClasses(fetched))]_vars

\* a sync cycle on an empty catalog has fetched two entries of one identity: one row,
\* one pending item
C13_Witness ==
    /\ last_op.op = "sync_deduplicated"
    /\ DOMAIN tracks = {"t1"}
    /\ tracks["t1"].last_seen = StartClock
    /\ now = StartClock
    /\ live_pending = <<"t1">>
    /\ live_current = <<>>

\* a step in which reconcile_catalog runs past its rate limit
ReconcileCatalogRuns ==
    \/ debounced_reconcile
    \/ worker_post_reconcile
    \/ startup_reconcile
    \/ (worker_begin /\ now - last_reconcile >= RECONCILE_INTERVAL)
    \/ \E fetched \in FetchedLists : sync_spotify_tracks(fetched)

\* the rows that are 'downloaded' although their file is gone
Vanished == {i \in DOMAIN tracks : tracks[i].status = "downloaded" /\ ~PathExists(tracks[i], files)}

\* C14: when a row is 'downloaded' and its file has been deleted, the next
\* reconcile_catalog that runs sets the row to 'missing', puts the track into pending
\* (exactly once; as a downloaded row it was not due before) and leaves
\* download_attempts unchanged.
C14_DeletedFileRequeued ==
    [][(Vanished # {} /\ ReconcileCatalogRuns)
        => \A i \in Vanished :
            /\ tracks'[i].status = "missing"
            /\ i \notin Eligible(tracks, now)
            /\ PendingCount(live_pending', i) = 1
            /\ tracks'[i].download_attempts = tracks[i].download_attempts]_vars

\* a downloaded track whose file was deleted is 'missing' again, with no failure
\* counted, and waits in pending
C14_Witness ==
    \E i \in DOMAIN tracks :
        /\ tracks[i].status = "missing"
        /\ tracks[i].local_path # None /\ tracks[i].local_path \notin files
        /\ tracks[i].download_attempts = 0
        /\ i \in Range(live_pending)

\* C5: a restart that loads the snapshot the worker has just written leaves current
\* empty, every item that was in pending or current in pending, and completed with
\* the same records.
C5_RestartRestoresQueue ==
    [][(restart /\ last_op.op = "sync_to_persistent_queue")
        => /\ live_current' = <<>>
           /\ Range(live_pending) \cup CurrentIds \subseteq Range(live_pending')
           /\ live_completed' = live_completed]_vars

\* C6: when a download ends as cancelled (timeout or cancelled future), no step of the
\* worker from the end of the wait through its completion handling changes the row's
\* download_attempts, retry_after or last_error.
C6_CancelledIsNotDurable ==
    [][(/\ wpc \in {"wait", "shutdown", "mark", "live_complete", "persist"}
        /\ wpc' # wpc
        /\ restarts' = restarts
        /\ w_out'.was_cancelled)
        => RetryFields(tracks', w_item) = RetryFields(tracks, w_item)]_vars

\* the worker has passed the marking step of a download that timed out, for an item
\* with a catalog row
C6_Witness ==
    /\ wpc = "live_complete"
    /\ w_out.was_cancelled
    /\ w_out.error_reason = "timeout"
    /\ w_item \in DOMAIN tracks

\* C7: if pause_downloads() ran while the download was in flight, the worker's marking
\* step leaves the row's status and download_attempts as they were, and when the worker
\* has finished with the item the item is in pending, whatever download_func returned.
C7_PauseReturnsItemUnchanged ==
    [][/\ (pause_hit /\ WorkerStep("mark", "live_complete"))
            => OutcomeFields(tracks', w_item) = OutcomeFields(tracks, w_item)
       /\ (pause_hit /\ WorkerStep("post_reconcile", "idle"))
            => w_item \in Range(live_pending')]_vars

\* no two rows of the catalog share last_seen: select_tracks_for_queue has one result
DistinctLastSeen(tr) ==
    \A i, j \in DOMAIN tr : i # j => tr[i].last_seen # tr[j].last_seen

\* C8: with a catalog database, when the worker finishes an item whose download was
\* cancelled, the item is the first element of live pending and is not in current.
\* Stated for the case that leaves no other outcome open: the row is still due for
\* download and the order of select_tracks_for_queue is fixed by last_seen.
C8_CancelledItemAtHead ==
    [][(/\ WorkerStep("post_reconcile", "idle")
        /\ w_out.was_cancelled
        /\ w_item \in Eligible(tracks', now)
        /\ DistinctLastSeen(tracks'))
        => /\ live_pending' # <<>>
           /\ Head(live_pending') = w_item
           /\ w_item \notin {live_current'[k].id : k \in 1..Len(live_current')}]_vars

\* C15: at no time are more invocations of download_func in flight than
\* concurrency_cap, whatever the number of pending tracks and however the sync
\* cycle interleaves with the download worker
C15_ConcurrencyCap == in_flight <= concurrency_cap

\* the worker's second download is in flight while another track is pending
C15_Witness == in_flight = 1 /\ downloads = 2 /\ live_pending # <<>>

\* C20: after POST /reset-queue no item is in current and every item that was
\* in current is in completed with status 'missing', in the queue that
\* GET /queue returns and that the download worker reads
C20_ResetQueueClearsCurrent ==
    [][reset_queue
        => /\ queue_view'.current = <<>>
           /\ \A k \in 1..Len(queue_view.current) :
                \E j \in 1..Len(queue_view'.completed) :
                    /\ queue_view'.completed[j].id = queue_view.current[k].id
                    /\ queue_view'.completed[j].status = "missing"]_vars

\* rows that are deferred: 'missing' with a retry_after in the future
Deferred(tr, t) ==
    {i \in DOMAIN tr : /\ tr[i].status = "missing"
                       /\ tr[i].retry_after # NoInt /\ tr[i].retry_after > t}

\* C21: after POST /reset-errors with a running service no catalog row is
\* deferred any more, and the reconciliation that follows puts every track
\* that had failed in the pending queue
C21_ResetErrorsClearsDeferrals ==
    /\ [][reset_errors => Deferred(tracks', now') = {}]_vars
    /\ [][(last_op.op = "reset_errors" /\ ReconcileCatalogRuns)
            => \A i \in DOMAIN tracks :
                (tracks[i].status = "missing" /\ failures[i] > 0)
                => i \in Range(live_pending')]_vars

\* the worker's completion handling (lines 534-547) has just written the catalog
CompletionMarked == wpc = "mark" /\ wpc' = "live_complete"

\* C25: every track whose download_func call reports success has, after the
\* completion handling of that iteration wrote the catalog, a row with status
\* 'downloaded', a stored local_path and download_attempts = 0, whatever (ok, path)
\* pair download_func returned
C25_SuccessIsRecorded ==
    [][(CompletionMarked /\ w_out.success /\ w_item \in DOMAIN tracks)
        => /\ tracks'[w_item].status = "downloaded"
           /\ tracks'[w_item].local_path # None
           /\ tracks'[w_item].download_attempts = 0]_vars

C27_NoMoveBeforeRetryAfter ==
    [][\A i \in Deferred(tracks, now) : i \in CurrentIds' => i \in CurrentIds]_vars

\* pending holds exactly the rows that are due, each once, oldest last_seen first
PendingIsDueRows ==
    /\ Range(live_pending)
          = {i \in DOMAIN tracks :
                /\ tracks[i].status = "missing"
                /\ (tracks[i].retry_after = NoInt \/ tracks[i].retry_after <= now)}
    /\ \A a, b \in 1..Len(live_pending) :
          a < b => /\ live_pending[a] # live_pending[b]
                   /\ tracks[live_pending[a]].last_seen <= tracks[live_pending[b]].last_seen

C30_WriteMoveReconcile ==
    /\ [][(worker_mark /\ tracks' # tracks)
            => /\ w_item \in CurrentIds
               /\ UNCHANGED <<live_current, live_completed>>]_vars
    /\ [][(live_completed' # live_completed)
            => /\ wpc = "live_complete"
               /\ w_item \in CurrentIds /\ w_item \notin CurrentIds'
               /\ Head(live_completed').id = w_item
               /\ UNCHANGED <<tracks, last_reconcile>>]_vars
    /\ [][worker_post_reconcile
            => /\ w_item \notin CurrentIds
               /\ live_completed # <<>>
               /\ Head(live_completed).id = w_item]_vars

\* a download cycle has ended: the row is written, the item is the newest completed
\* record, current is empty and the forced reconcile has just run
C30_Witness ==
    /\ wpc = "idle" /\ downloads = 2
    /\ live_current = <<>>
    /\ Len(live_completed) = 2
    /\ Head(live_completed).id \in DOMAIN tracks
    /\ Head(live_completed).status = "missing"
    /\ tracks[Head(live_completed).id].download_attempts = 1
    /\ last_reconcile = now

\* C31: at most one debounced reconcile thread started by _schedule_reconcile is
\* in flight at any time, however filesystem events and notify_config_updated
\* calls interleave
C31_OneDebouncedReconcile == DebouncedInFlight <= 1

\* C32: when use_strict_matching has been saved as true, the worker picks a
\* candidate only if its normalised artist and title equal the target's and the two
\* durations differ by at most 5 seconds
C32_StrictMatchingApplied ==
    (mt_posted /\ mt_out = "picked")
        => /\ normalize_chars(mt_candidate.artist) = normalize_chars(mt_target.artist)
           /\ normalize_chars(mt_candidate.title) = normalize_chars(mt_target.title)
           /\ Abs(mt_candidate.duration - mt_target.duration) <= 5

\* thread t waits in acquire() for a lock that is held
LockBlocked(t) ==
    /\ lk_script[t] # <<>> /\ Head(lk_script[t]).op = "acquire"
    /\ lk_owner[Head(lk_script[t]).lock] # None

\* the thread that holds the lock t waits for
LockWaitsOn(t) == lk_owner[Head(lk_script[t]).lock]

\* C33: no thread waits for ever for the live-queue lock or the status lock: no
\* thread waits for a lock it holds itself or for a lock whose holder waits, in its
\* turn, for a lock held by one of the two; and whenever a thread holds both locks
\* it took the live-queue lock first
C33_LocksDeadlockFree ==
    /\ \A t \in LockThreads :
          LockBlocked(t)
            => /\ LockWaitsOn(t) # t
               /\ ~(LockBlocked(LockWaitsOn(t))
                     /\ LockWaitsOn(LockWaitsOn(t)) \in {t, LockWaitsOn(t)})
    /\ \A t \in LockThreads : Len(lk_held[t]) = 2 => lk_held[t] = <<"live", "status">>

\* the worker holds both locks inside sync_to_persistent_queue while the sync
\* thread waits for the status lock and the progress callback for the live lock
C33_Witness ==
    /\ lk_held["worker"] = <<"live", "status">>
    /\ LockBlocked("sync") /\ Head(lk_script["sync"]).lock = "status"
    /\ LockBlocked("progress") /\ Head(lk_script["progress"]).lock = "live"

\* C34: at most one scheduler thread runs at any time, however concurrent
\* start_scheduler calls and stop_scheduler calls interleave
C34_OneSchedulerThread == Cardinality(ss_alive) <= 1

\* C38: stop_scheduler stops the scheduler only: the download worker loop that was
\* running keeps running after stop_scheduler was called and has returned
C38_StopSchedulerSparesWorker == ss_worker = "running"

\* C39: every filesystem notification is eventually followed by a reconciliation
\* pass whose disk scan starts after it, also when it arrives while a debounced
\* reconcile is pending or running. The worker loop, while downloads are not
\* paused, is granted to scan in time (its reconcile_catalog() call scans once
\* RECONCILE_INTERVAL has passed): the notification has to be scanned by the
\* debounced reconcile only while downloads stay paused
C39_NotificationIsScanned == sr_unscanned ~> (~sr_unscanned \/ ~paused)

\* track i waits in the pending queue
InPending(i) == \E k \in 1..Len(live_pending) : live_pending[k] = i

\* C40: with the worker not paused and every download_func call returning, every
\* track of the pending queue is eventually moved to current, whatever the tracks
\* ahead of it end as: no track waits in pending for ever (a track that a later
\* reconcile takes out of pending is not held against the worker)
C40_PendingIsServed ==
    \A i \in Ids : InPending(i) ~> (i \in CurrentIds \/ ~InPending(i))

\* C35: every item the worker moves into current is eventually removed from
\* current, whatever the search, the download and the catalog write do, a catalog
\* write that raises included
C35_CurrentIsDrained ==
    \A i \in Ids : [](i \in CurrentIds => <>(i \notin CurrentIds))

\* C24: while the pause signal is set the download worker moves no item from
\* pending to current
C24_NoMoveWhilePaused ==
    [][(paused /\ paused') => CurrentIds' \subseteq CurrentIds]_vars

(* ------------------------------------------------------------------ *)
(* Properties of the catalog                                            *)
(* ------------------------------------------------------------------ *)
\* C3: immediately after reconcile_catalog_paths returns, every row has status
\* 'downloaded' if and only if a file exists at its local_path, and 'missing' otherwise.
C3_CatalogMatchesDisk ==
    last_op.op = "reconcile_catalog_paths" =>
        \A i \in DOMAIN tracks :
            LET on_disk == tracks[i].local_path \in files
            IN  /\ tracks[i].status = "downloaded" <=> on_disk
                /\ ~on_disk => tracks[i].status = "missing"

\* C3 witness: a reconciliation has just run over a row whose file exists, a row whose
\* recorded file is gone and a row that never had a file
C3_Witness ==
    /\ last_op.op = "reconcile_catalog_paths"
    /\ \E i, j \in DOMAIN tracks :
          /\ tracks[i].status = "downloaded" /\ tracks[i].local_path \in files
          /\ tracks[j].status = "missing" /\ tracks[j].local_path \notin files
    /\ \E p \in Paths : p \notin files /\ \E i \in DOMAIN tracks : tracks[i].local_path = p

\* the delays of the retry schedule, by number of consecutive failures
ScheduleDelay(n) ==
    CASE n = 1 -> 300
      [] n = 2 -> 900
      [] n = 3 -> 2700
      [] n = 4 -> 8100
      [] OTHER -> 21600

\* C9: right after the n-th consecutive mark_download_failure on an identity (n counted
\* from row creation or from the last mark_download_success), download_attempts is n,
\* status is 'missing' and retry_after is the failure time plus min(300 * 3^(n-1), 21600):
\* 300, 900, 2700 for n = 1, 2, 3 and 21600 from n = 5 on.
C9_BackoffSchedule ==
    \A i \in DOMAIN tracks :
        (last_op.op = "mark_download_failure" /\ last_op.id = i) =>
            LET n == failures[i]
            IN  /\ n >= 1
                /\ tracks[i].download_attempts = n
                /\ tracks[i].status = "missing"
                /\ tracks[i].retry_after = now + ScheduleDelay(n)

\* C9 witness: a sixth consecutive failure, after an earlier success on the same row
C9_Witness ==
    \E i \in DOMAIN tracks :
        /\ last_op.op = "mark_download_failure" /\ last_op.id = i
        /\ failures[i] = 6
        /\ tracks[i].local_path # None
        /\ tracks[i].retry_after = now + 21600

\* C10: in every reachable catalog state, every row with status 'downloaded' has
\* download_attempts = 0.
C10_DownloadedHasNoAttempts ==
    \A i \in DOMAIN tracks :
        tracks[i].status = "downloaded" => tracks[i].download_attempts = 0

\* mark_download_success was never called on the row of i: it is the only writer of
\* local_path
NeverSucceeded(tr, i) == i \in DOMAIN tr /\ tr[i].local_path = None

\* C11: for an identity on which mark_download_success was never called, no call of
\* mark_download_failure, upsert_tracks or reconcile_catalog_paths lowers
\* download_attempts, and each failure stores a retry_after not smaller than the one
\* the previous failure stored.
C11_AttemptsAndRetryMonotone ==
    [][\A i \in Ids :
        (NeverSucceeded(tracks, i) /\ NeverSucceeded(tracks', i))
        => /\ AttemptsOf(tracks', i) >= AttemptsOf(tracks, i)
           /\ (last_op'.op = "mark_download_failure" /\ last_op'.id = i
                /\ tracks[i].retry_after # NoInt)
               => tracks'[i].retry_after >= tracks[i].retry_after]_vars

\* a row that never succeeded, upserted again after the clock advanced, has just failed
\* for the third time
C11_Witness ==
    \E i \in Ids :
        /\ NeverSucceeded(tracks, i)
        /\ last_op = [op |-> "mark_download_failure", id |-> i]
        /\ failures[i] = 3
        /\ tracks[i].download_attempts = 3
        /\ tracks[i].last_seen > StartClock

\* the download state of a row: every column but last_seen
DownloadState(row) ==
    <<row.status, row.local_path, row.last_error, row.retry_after, row.download_attempts>>

\* the catalog without last_seen
DownloadStates(tr) == [i \in DOMAIN tr |-> DownloadState(tr[i])]

\* C12: upsert_tracks leaves status, local_path, last_error, retry_after and
\* download_attempts of every row that already exists unchanged, and applying the
\* same batch a second time (at the same or a later time) gives the same rows as
\* applying it once, except for last_seen.
C12_UpsertIdempotent ==
    [][last_op'.op = "upsert_tracks"
        => /\ \A i \in DOMAIN tracks : DownloadState(tracks'[i]) = DownloadState(tracks[i])
           /\ \A batch \in SUBSET Ids :
                (tracks' = upsert_tracks(tracks, batch, now))
                => \A t \in {now, now + CatalogTickSeconds} :
                     /\ DownloadStates(upsert_tracks(tracks', batch, t)) = DownloadStates(tracks')
                     /\ DOMAIN upsert_tracks(tracks', batch, t) = DOMAIN tracks']_vars

\* upsert_tracks has just run on a batch holding a downloaded row and a row with two
\* failures and a retry time
C12_Witness ==
    /\ last_op.op = "upsert_tracks"
    /\ now > StartClock
    /\ \E i, j \in DOMAIN tracks :
        /\ tracks[i].status = "downloaded" /\ tracks[i].last_seen = now
        /\ tracks[j].status = "missing" /\ tracks[j].download_attempts = 2
        /\ tracks[j].retry_after # NoInt /\ tracks[j].last_seen = now

\* C19: every upsert_tracks batch that succeeds moves the catalog version token,
\* once, to a value strictly greater than the one it held, hence than every
\* value it held before
C19_VersionStrictlyAdvances ==
    [][\A batch \in SUBSET Ids :
        db_upsert_tracks(batch) => catalog_version' > catalog_version]_vars

(* ------------------------------------------------------------------ *)
(* Properties of the sync lock                                          *)
(* ------------------------------------------------------------------ *)
\* callers inside the `with sync_lock()` block after having been given acquired = True
InCycle == {c \in Callers : pc[c] = "body"}

\* C1: for every interleaving of sync_lock() callers and is_sync_running() calls,
\* at most one caller at a time is inside the block with acquired = True.
C1_SingleFlight == Cardinality(InCycle) <= 1

\* C4: when run_once calls overlap, at most one of them is inside a sync cycle; the
\* caller that holds the lock is the one that runs the cycle; a refused caller got
\* acquired = False from the non-blocking acquire (which is always enabled, so it
\* never waits), runs no sync_spotify_tracks and returns False.
C4_OverlapOneCycle ==
    /\ Cardinality(InCycle) <= 1
    /\ Cardinality({c \in Callers : acquired[c]}) <= 1
    /\ \A c \in Callers :
          /\ pc[c] = "acquire" => ENABLED sync_lock_acquire(c)
          /\ pc[c] = "refused" => ~acquired[c] /\ ~ran[c]
          /\ (pc[c] = "exit_check" /\ ~acquired[c]) => ~ran[c]
          /\ (pc[c] \in {"exit_check", "clear_busy", "clear_since", "release"} /\ acquired[c])
                => ran[c]
          /\ result[c] \in {None, "True", "False"}
          /\ (pc[c] = "refused" /\ lock_held) => \E d \in Callers \ {c} : acquired[d]

\* C4 witness: one caller is inside its sync cycle while an overlapping caller has
\* been refused, and a refused call has returned False
C4_Witness ==
    \E a, b \in Callers :
        /\ pc[a] = "body" /\ pc[b] = "refused" /\ ~acquired[b]
        /\ \E d \in Callers : result[d] = "False"

\* C16: if the lock has been busy for more than 1800 seconds, the next caller
\* that enters sync_lock() is not given 'not acquired': the step at line 15
\* that decides the caller's entry lets it go on to take the lock
C16_StuckLockRecovered ==
    [][\A c \in Callers :
        (/\ busy /\ busy_since # NoInt
         /\ now - busy_since > SYNC_TIMEOUT
         /\ sync_lock_check(c))
        => pc'[c] = "set_busy"]_vars

(* ------------------------------------------------------------------ *)
(* Properties of the scheduler                                          *)
(* ------------------------------------------------------------------ *)
\* the scheduler thread is executing its run_once(reason="scheduled")
ScheduledRunExecuting == spc \in {"call", "running"}

\* the inner loop finds the interval over: the next scheduled run starts
ScheduledRunStarts == sched_wait /\ spc' = "top"

\* the inner loop observes the timer reset
ResetObserved == sched_wait /\ timer_reset /\ ~timer_reset'

\* C17: next_run_at is None while a scheduled run_once executes; when the run
\* has finished, next_run_at is the whole number of seconds of completion time
\* plus interval; it keeps that value until the next run starts, unless an
\* observed timer reset moves it later; and the next scheduled run does not
\* start before the time next_run_at shows
C17_NextRunAtFollowsCompletion ==
    /\ [](ScheduledRunExecuting => next_run_at = NoInt)
    /\ [][sched_completed
            => /\ completed_at' = time_time
               /\ HalvesPerSecond * next_run_at'
                      <= time_time + HalvesPerSecond * interval_seconds
               /\ time_time + HalvesPerSecond * interval_seconds
                      < HalvesPerSecond * (next_run_at' + 1)]_vars
    /\ [][(next_run_at # NoInt /\ next_run_at' # next_run_at)
            => \/ sched_clear
               \/ ResetObserved /\ next_run_at' >= next_run_at]_vars
    /\ [][ScheduledRunStarts
            => /\ next_run_at # NoInt
               /\ time_time >= HalvesPerSecond * next_run_at]_vars

\* a second scheduled run is executing, begun at a time that is not a whole
\* second, with no manual sync so far
C17_Witness ==
    /\ pc[Scheduler] = "body"
    /\ spc = "running"
    /\ completed_at # NoInt
    /\ completed_at % HalvesPerSecond = 1
    /\ \A c \in ManualCallers : result[c] = None /\ snpc[c] = "idle"

\* the scheduled run_once has finished, by returning or by raising
ScheduledRunFinished == spc = "running" /\ spc' # "running"

\* C28: after every scheduled run_once, whether it returned True, returned False
\* or raised, the scheduler sets next_run_at to the whole seconds of completion
\* time + interval and goes on to wait for the interval, after which it runs again
C28_SchedulerSurvivesRun ==
    [][ScheduledRunFinished
        => /\ spc' = "wait"
           /\ next_run_at' = int(Deadline(time_time))]_vars

\* C18: when a sync_now() has returned True, the next scheduled run starts one
\* full interval or more after the scheduler observed the timer reset, so that
\* no raised reset is still unobserved when the run starts; a sync_now() that
\* returns False leaves the schedule as it is
C18_ManualSyncSlidesSchedule ==
    /\ [][ScheduledRunStarts
            => /\ ~timer_reset
               /\ time_time >= Deadline(completed_at)]_vars
    /\ [][\A c \in ManualCallers :
            (sync_now_return(c) /\ result[c] # "True")
            => UNCHANGED <<timer_reset, completed_at, next_run_at, wake_at, spc>>]_vars

(* ------------------------------------------------------------------ *)
(* Properties of DedupQueue                                             *)
(* ------------------------------------------------------------------ *)
\* the identity keys of the queued tracks
QueuedKeys == {identity_key(dq_q[k]) : k \in 1..Len(dq_q)}

\* C22: after any sequence of enqueue and dequeue the queue holds at most cap
\* items, no two of them with one identity; an enqueue of an identity that
\* was enqueued before, or on a queue at capacity, returns False and leaves the
\* queue as it was
C22_DedupQueueBounded ==
    /\ [](Len(dq_q) <= dq_cap /\ Cardinality(QueuedKeys) = Len(dq_q))
    /\ [][\A track \in DedupTracks :
            (/\ enqueue(track)
             /\ \/ identity_key(track) \in dq_enqueued
                \/ Len(dq_q) >= dq_cap)
            => dq_ret'.value = "False" /\ dq_q' = dq_q]_vars

\* an identity that was enqueued and dequeued is refused on an empty queue
\* whose capacity is not used up
C22_Witness ==
    /\ dq_ret = [op |-> "enqueue", arg |-> Queen352, value |-> "False"]
    /\ dq_q = <<>> /\ dq_cap = 2
    /\ dq_enqueued = {identity_key(Queen354), identity_key(Abba200)}

(* ------------------------------------------------------------------ *)
(* Properties of the path template                                      *)
(* ------------------------------------------------------------------ *)
\* the placeholders of a template
VarsOf(tmpl) == {tmpl[k].v : k \in {j \in 1..Len(tmpl) : tmpl[j].kind = "var"}}

\* C23: for every valid template and all fields free of path separators,
\* matching the regex of to_path_regex against the rendered path succeeds and
\* gives back each field of the template, up to normalisation
C23_PathRegexRoundTrip ==
    pt_out # NoPathOut
    => /\ pt_out.status = "match"
       /\ \A name \in VarsOf(pt_tmpl) :
            normalize_chars(pt_out.groups[name]) = normalize_chars(pt_fields[name])

====
